---- MODULE Spec2Model ----
(***************************************************************************)
(* Storage-engine core of bustub-2022fall: the extendible hash table used  *)
(* as page table, the LRU-K replacer and the buffer pool manager instance. *)
(* Every operation is translated from its C++ body.  A call whose C++      *)
(* behaviour is undefined (an iterator erased from a container it does not *)
(* belong to, a dangling iterator, operator[] on an empty vector, a        *)
(* std::mutex locked twice by its owner) is a nondeterministic choice over *)
(* the outcomes listed at the place where it happens.                      *)
(***************************************************************************)
EXTENDS Integers, Sequences, FiniteSets, TLC

\* ---------------------------------------------------------------- bounds
\* pools of 1 .. PoolSize frames (constructor argument pool_size)
PoolSize == 2
\* page ids AllocatePage may hand out: 0 .. MaxPages-1
MaxPages == 2
\* pin counts are explored up to MaxPin
MaxPin == 2
\* the replacer's logical clock is explored up to MaxTime
MaxTime == 3
\* replacer_k ranges over 1 .. MaxK
MaxK == 2
\* page payloads are 0 (zeroed memory) .. MaxData
MaxData == 1
\* a replacer driven on its own tracks 1 .. MaxFrames frames
MaxFrames == 3
\* with k in 1 .. MaxLruK
MaxLruK == 3
\* and records up to MaxAccess accesses
MaxAccess == 5
\* a replacer whose clients name one frame more than its capacity has
\* 1 .. MaxCrowd frames
MaxCrowd == 1
\* a hash table driven on its own takes keys 0 .. MaxKey-1 and values
\* 0 .. MaxValue
MaxKey == 4
MaxValue == 1
\* capacity of one hash bucket (constructor argument bucket_size)
BucketSize == 1
\* threads that call one hash table at the same time: thread 1 inserts keys
\* 0 .. MaxRaceKey-1, threads 2 .. MaxThreads call Find and the getters
MaxThreads == 2
MaxRaceKey == 3
\* a B+ tree is built with leaf_max_size and internal_max_size in
\* 2 .. MaxTreeSize, over pages INVALID_PAGE_ID .. MaxTreePages-1 whose entry
\* arrays are modelled up to slot MaxSlots-1
MaxTreeSize == 3
MaxTreePages == 4
MaxSlots == 4
\* an operation of the tree makes up to MaxCalls calls that ask the pool for a
\* frame; the pool may refuse any one of them
MaxCalls == 3

\* ------------------------------------------------------ program constants
INVALID_PAGE_ID == -1

PageIds == 0 .. (MaxPages - 1)
Data == 0 .. MaxData

\* ============================================================ hash table
\* A table is [dir_, global_depth_, num_buckets_, heap]: dir_ is the vector of
\* shared_ptr<Bucket> (slot i of the code is dir_[i+1]); heap maps each live
\* bucket to [depth_, list_].

\* ExtendibleHashTable(bucket_size): the directory starts empty.
HTNew == [dir_ |-> << >>, global_depth_ |-> 0, num_buckets_ |-> 1,
          heap |-> << >>]

Pow2(n) == 2 ^ n

\* std::hash<int> is the identity into size_t, so the low bits of a negative
\* key are those of its two's complement: key mod 2^global_depth_.
IndexOfShifted(ht, key) == (key + 1) % Pow2(ht.global_depth_)
IndexOf(ht, key) == key % Pow2(ht.global_depth_)

\* Bucket::Find
BucketFind(b, key) ==
    LET hits == {i \in DOMAIN b.list_ : b.list_[i][1] = key}
    IN  IF hits = {} THEN [found |-> FALSE, value |-> -1]
        ELSE [found |-> TRUE,
              value |-> b.list_[CHOOSE i \in hits : \A j \in hits : i <= j][2]]

\* Bucket::Remove
BucketRemove(b, key) ==
    LET hits == {i \in DOMAIN b.list_ : b.list_[i][1] = key}
        i0 == CHOOSE i \in hits : \A j \in hits : i <= j
    IN  IF hits = {} THEN b
        ELSE [b EXCEPT !.list_ = SubSeq(@, 1, i0 - 1) \o SubSeq(@, i0 + 1, Len(@))]

\* Bucket::Insert: TRUE when the key was overwritten or appended
BucketInsertOk(b, key) ==
    \/ \E i \in DOMAIN b.list_ : b.list_[i][1] = key
    \/ Len(b.list_) < BucketSize

BucketInsert(b, key, value) ==
    LET hits == {i \in DOMAIN b.list_ : b.list_[i][1] = key}
        i0 == CHOOSE i \in hits : \A j \in hits : i <= j
    IN  IF hits # {} THEN [b EXCEPT !.list_[i0] = <<key, value>>]
        ELSE IF Len(b.list_) < BucketSize
             THEN [b EXCEPT !.list_ = Append(@, <<key, value>>)]
             ELSE b

FreshBucket(ht) ==
    IF DOMAIN ht.heap = {} THEN 1
    ELSE 1 + CHOOSE m \in DOMAIN ht.heap : \A n \in DOMAIN ht.heap : n <= m

\* bit (d-1) of the slot number i
SlotBit(i, d) == (i \div Pow2(d - 1)) % 2

RECURSIVE InernalInsert(_, _, _)
RECURSIVE ReInsert(_, _)

\* the loop  for (auto &x : target->GetItems()) InernalInsert(x.first, x.second)
ReInsert(ht, items) ==
    IF items = << >> THEN ht
    ELSE ReInsert(InernalInsert(ht, Head(items)[1], Head(items)[2]), Tail(items))

InernalInsert(ht, key, value) ==
    LET h0 == IF ht.dir_ = << >>
              THEN [ht EXCEPT !.dir_ = <<FreshBucket(ht)>>,
                              !.heap = FreshBucket(ht) :> [depth_ |-> 0, list_ |-> << >>]]
              ELSE ht
        index == IndexOf(h0, key)
        b == h0.dir_[index + 1]
    IN  IF BucketInsertOk(h0.heap[b], key)
        THEN [h0 EXCEPT !.heap[b] = BucketInsert(@, key, value)]
        ELSE
          LET h1 == IF h0.heap[b].depth_ = h0.global_depth_
                    THEN [h0 EXCEPT !.global_depth_ = @ + 1,
                                    !.num_buckets_ = @ * 2,
                                    !.dir_ = @ \o @]
                    ELSE h0
              h2 == [h1 EXCEPT !.heap[b].depth_ = @ + 1]
              d == h2.heap[b].depth_
              n1 == FreshBucket(h2)
              n2 == n1 + 1
              h3 == [h2 EXCEPT
                       !.dir_ = [i \in DOMAIN @ |->
                                   IF @[i] = b
                                   THEN (IF SlotBit(i - 1, d) = 1 THEN n1 ELSE n2)
                                   ELSE @[i]],
                       !.heap = (n1 :> [depth_ |-> d, list_ |-> << >>]) @@
                                (n2 :> [depth_ |-> d, list_ |-> << >>]) @@ @]
          IN  InernalInsert(ReInsert(h3, h2.heap[b].list_), key, value)

\* Buckets are shared_ptr targets: only which slots share one is observable.
\* Every bucket is renamed to the first slot that references it and buckets
\* no slot references are released.
HTCollect(ht) ==
    LET first(b) == CHOOSE i \in DOMAIN ht.dir_ :
                       /\ ht.dir_[i] = b
                       /\ \A j \in 1 .. (i - 1) : ht.dir_[j] # b
        live == {ht.dir_[i] : i \in DOMAIN ht.dir_}
    IN  [ht EXCEPT !.dir_ = [i \in DOMAIN ht.dir_ |-> first(ht.dir_[i])],
                   !.heap = [n \in {first(b) : b \in live} |->
                               ht.heap[CHOOSE b \in live : first(b) = n]]]

\* ExtendibleHashTable::Insert (its body is that of InernalInsert under mu_)
HTInsert(ht, key, value) == HTCollect(InernalInsert(ht, key, value))

\* ExtendibleHashTable::Find indexes dir_ without testing dir_.empty(): on an
\* empty directory dir_[index] is out of range.
HTFindUndefined(ht) == ht.dir_ = << >>

HTFind(ht, key) == BucketFind(ht.heap[ht.dir_[IndexOf(ht, key) + 1]], key)

\* ExtendibleHashTable::Remove
HTRemove(ht, key) ==
    IF ht.dir_ = << >> THEN ht
    ELSE LET b == ht.dir_[IndexOf(ht, key) + 1]
         IN  [ht EXCEPT !.heap[b] = BucketRemove(@, key)]

\* the key/value pairs a table holds
HTPairs(ht) ==
    {ht.heap[b].list_[i] : <<b, i>> \in
        {<<b, i>> \in (DOMAIN ht.heap) \X (1 .. BucketSize) : i <= Len(ht.heap[b].list_)}}

\* the local depth of the bucket of slot i (slots count from 1 here)
LocalDepth(ht, i) == ht.heap[ht.dir_[i]].depth_

\* ExtendibleHashTable::GetNumBuckets
GetNumBuckets(ht) == ht.num_buckets_

RECURSIVE SplitLog(_, _, _)
RECURSIVE ReInsertLog(_, _)

\* the bucket splits the loop of re-insertions goes through
ReInsertLog(ht, items) ==
    IF items = << >> THEN << >>
    ELSE SplitLog(ht, Head(items)[1], Head(items)[2]) \o
         ReInsertLog(InernalInsert(ht, Head(items)[1], Head(items)[2]), Tail(items))

\* The bucket splits one Insert(key, value) goes through, in order: for each
\* the local depth of the overflowing bucket, and the global depth and the
\* directory before and after the test  GetDepth() == global_depth_.
SplitLog(ht, key, value) ==
    LET h0 == IF ht.dir_ = << >>
              THEN [ht EXCEPT !.dir_ = <<FreshBucket(ht)>>,
                              !.heap = FreshBucket(ht) :> [depth_ |-> 0, list_ |-> << >>]]
              ELSE ht
        index == IndexOf(h0, key)
        b == h0.dir_[index + 1]
    IN  IF BucketInsertOk(h0.heap[b], key)
        THEN << >>
        ELSE
          LET h1 == IF h0.heap[b].depth_ = h0.global_depth_
                    THEN [h0 EXCEPT !.global_depth_ = @ + 1,
                                    !.num_buckets_ = @ * 2,
                                    !.dir_ = @ \o @]
                    ELSE h0
              h2 == [h1 EXCEPT !.heap[b].depth_ = @ + 1]
              d == h2.heap[b].depth_
              n1 == FreshBucket(h2)
              n2 == n1 + 1
              h3 == [h2 EXCEPT
                       !.dir_ = [i \in DOMAIN @ |->
                                   IF @[i] = b
                                   THEN (IF SlotBit(i - 1, d) = 1 THEN n1 ELSE n2)
                                   ELSE @[i]],
                       !.heap = (n1 :> [depth_ |-> d, list_ |-> << >>]) @@
                                (n2 :> [depth_ |-> d, list_ |-> << >>]) @@ @]
              h4 == ReInsert(h3, h2.heap[b].list_)
          IN  <<[L |-> h0.heap[b].depth_,
                 G |-> h0.global_depth_, dir |-> h0.dir_,
                 G1 |-> h1.global_depth_, dir1 |-> h1.dir_]>>
              \o ReInsertLog(h3, h2.heap[b].list_)
              \o SplitLog(h4, key, value)

\* ============================================================ LRU-K replacer
\* A replacer is [map_, timestamp_, curr_size_, replacer_size_, k_, ub].
\* map_[f] is the set element the iterator map_[f] points to, with the
\* container that really holds it in field "in": "history" (history_list_),
\* "buffered" (buffered_list_), "none" (none_evictable_) or "freed" (erased:
\* the iterator dangles).  ub is TRUE once a container was handed an iterator
\* that is not its own: from then on the three sets are in an unspecified
\* state.
\* Every operation yields the set of its possible outcomes
\* [st, r, ret, frame]: st is "ok" (the call returned), "crash" (the process
\* died) or "hang" (the call never returns).

LRUKReplacer(num_frames, k) ==
    [map_ |-> << >>, timestamp_ |-> 0, curr_size_ |-> 0,
     replacer_size_ |-> num_frames, k_ |-> k, ub |-> FALSE]

\* frame_info_t(timestamp, frame_id): a first access, evictable, in history
frame_info_t(ts) ==
    [timestamp_ |-> ts, times_hit_ |-> 1, evitable_ |-> TRUE,
     buffered_ |-> FALSE, in |-> "history"]

Ok(r) == [st |-> "ok", r |-> r, ret |-> TRUE, frame |-> -1]
Crash(r) == [st |-> "crash", r |-> r, ret |-> FALSE, frame |-> -1]
Hang(r) == [st |-> "hang", r |-> r, ret |-> FALSE, frame |-> -1]

\* A set erased through a foreign or dangling iterator: the call may die at
\* once or return with the containers damaged.
\* Once damaged the containers of the replacer are no longer read: they are
\* cleared so that every damaged replacer is the same value.
Damaged(r) == [r EXCEPT !.map_ = << >>, !.timestamp_ = 0, !.curr_size_ = 0,
                        !.ub = TRUE]
Undefined(r) == {Crash(r), Ok(Damaged(r))}

\* frames a container holds, and its begin()
Held(r, c) == {f \in DOMAIN r.map_ : r.map_[f].in = c}
Begin(r, c) ==
    CHOOSE f \in Held(r, c) :
        \A g \in Held(r, c) : r.map_[f].timestamp_ <= r.map_[g].timestamp_

Drop(fn, x) == [y \in (DOMAIN fn) \ {x} |-> fn[y]]

\* LRUKReplacer::Evict, entered with common_latch_ free
Evict(r) ==
    IF r.ub
    THEN {Crash(r), [st |-> "ok", r |-> r, ret |-> FALSE, frame |-> 0]} \cup
         {[st |-> "ok", r |-> r, ret |-> TRUE, frame |-> f] :
             f \in 0 .. (r.replacer_size_ - 1)}
    ELSE IF Held(r, "history") # {}
    THEN LET f == Begin(r, "history")
         IN  {[st |-> "ok", ret |-> TRUE, frame |-> f,
               r |-> [r EXCEPT !.map_ = Drop(@, f), !.curr_size_ = @ - 1]]}
    ELSE IF Held(r, "buffered") # {}
    THEN LET f == Begin(r, "buffered")
         IN  {[st |-> "ok", ret |-> TRUE, frame |-> f,
               r |-> [r EXCEPT !.map_ = Drop(@, f), !.curr_size_ = @ - 1]]}
    ELSE {[st |-> "ok", r |-> r, ret |-> FALSE, frame |-> 0]}

\* BUSTUB_ASSERT(Evict(&id), true) inside RecordAccess and SetEvictable, which
\* hold common_latch_: with assertions compiled in, Evict locks common_latch_
\* a second time and the thread blocks on itself; with NDEBUG the expression
\* is not evaluated.
AssertEvict(r, ndebug) == IF ndebug THEN {Ok(r)} ELSE {Hang(r)}

\* LRUKReplacer::RecordAccess
RecordAccess(r, frame_id, ndebug) ==
    IF r.ub THEN Undefined(r)
    ELSE IF frame_id \notin DOMAIN r.map_
    THEN IF r.curr_size_ = r.replacer_size_
         THEN AssertEvict(r, ndebug)
         ELSE {Ok([r EXCEPT
                     !.timestamp_ = @ + 1,
                     !.map_ = (frame_id :> frame_info_t(r.timestamp_ + 1)) @@ @,
                     !.curr_size_ = @ + 1])}
    ELSE LET tmp == r.map_[frame_id]
             from == IF ~tmp.evitable_ THEN "none"
                     ELSE IF tmp.buffered_ THEN "buffered" ELSE "history"
             hit == tmp.times_hit_ + 1
             to == IF ~tmp.evitable_ THEN "none"
                   ELSE IF hit >= r.k_ THEN "buffered" ELSE "history"
         IN  IF tmp.in # from THEN Undefined(r)
             ELSE {Ok([r EXCEPT
                         !.timestamp_ = @ + 1,
                         !.map_[frame_id] =
                            [tmp EXCEPT !.times_hit_ = hit,
                                        !.timestamp_ = r.timestamp_ + 1,
                                        !.buffered_ = IF to = "buffered" THEN TRUE ELSE @,
                                        !.in = to]])}

\* LRUKReplacer::SetEvictable
SetEvictable(r, frame_id, set_evictable, ndebug) ==
    IF r.ub THEN Undefined(r)
    ELSE IF frame_id \notin DOMAIN r.map_ THEN {Ok(r)}
    ELSE LET tmp == r.map_[frame_id]
         IN  IF tmp.in = "freed" THEN Undefined(r)
             ELSE IF ~tmp.evitable_ /\ set_evictable
             THEN IF tmp.in # "none" THEN Undefined(r)
                  ELSE LET to == IF tmp.times_hit_ >= r.k_ THEN "buffered" ELSE "history"
                           moved == [r EXCEPT !.map_[frame_id].in = to,
                                              !.curr_size_ = @ + 1]
                       IN  IF r.curr_size_ = r.replacer_size_
                           THEN {IF o.st = "ok" THEN Ok(moved) ELSE o :
                                    o \in AssertEvict(r, ndebug)}
                           ELSE {Ok(moved)}
             ELSE IF tmp.buffered_ /\ ~set_evictable
             THEN IF tmp.in # "buffered" THEN Undefined(r)
                  ELSE {Ok([r EXCEPT
                              !.map_[frame_id] = [tmp EXCEPT !.buffered_ = FALSE,
                                                             !.evitable_ = FALSE,
                                                             !.in = "none"],
                              !.curr_size_ = @ - 1])}
             ELSE IF tmp.evitable_ /\ ~set_evictable
             THEN IF tmp.in # "history" THEN Undefined(r)
                  ELSE {Ok([r EXCEPT
                              !.map_[frame_id] = [tmp EXCEPT !.evitable_ = FALSE,
                                                             !.in = "none"],
                              !.curr_size_ = @ - 1])}
             ELSE {Ok(r)}

\* LRUKReplacer::Remove: erases the set element and keeps map_[frame_id] and
\* curr_size_.  BUSTUB_ASSERT(it->second->evitable_, true) aborts when
\* assertions are compiled in and the flag is false.
Remove(r, frame_id, ndebug) ==
    IF r.ub THEN Undefined(r)
    ELSE IF frame_id \notin DOMAIN r.map_ THEN {Ok(r)}
    ELSE LET tmp == r.map_[frame_id]
             from == IF tmp.buffered_ THEN "buffered" ELSE "history"
         IN  IF tmp.in = "freed" THEN Undefined(r)
             ELSE IF ~ndebug /\ ~tmp.evitable_ THEN {Crash(r)}
             ELSE IF tmp.in # from THEN Undefined(r)
             ELSE {Ok([r EXCEPT !.map_[frame_id].in = "freed"])}

\* LRUKReplacer::Size
Size(r) == r.curr_size_

\* frames Evict can return
Evictable(r) == Held(r, "history") \cup Held(r, "buffered")

\* ============================================================ B+ tree pages
\* A tree page is the content of a frame's byte buffer read as a
\* BPlusTreePage: [page_type_, size_, max_size_, parent_page_id_, page_id_,
\* next_page_id_, array_]; slot i of the code is array_[i + 1].

TreePageIds == INVALID_PAGE_ID .. (MaxTreePages - 1)

\* the bytes of a page nothing was written to: ResetMemory() zeroes the
\* frame and the disk manager has nothing to read
ZeroPage ==
    [page_type_ |-> "INVALID_INDEX_PAGE", size_ |-> 0, max_size_ |-> 0,
     parent_page_id_ |-> 0, page_id_ |-> 0, next_page_id_ |-> 0,
     array_ |-> [i \in 1 .. MaxSlots |-> <<0, 0>>]]

\* BPlusTreeLeafPage::Init: next_page_id_ and array_ keep what the frame held
LeafInit(pg, page_id, parent_id, max_size) ==
    [pg EXCEPT !.page_type_ = "LEAF_PAGE", !.size_ = 0, !.max_size_ = max_size,
               !.parent_page_id_ = parent_id, !.page_id_ = page_id]

\* BPlusTreeInternalPage::Init
InternalInit(pg, page_id, parent_id, max_size) ==
    [pg EXCEPT !.page_type_ = "INTERNAL_PAGE", !.size_ = 1, !.max_size_ = max_size,
               !.parent_page_id_ = parent_id, !.page_id_ = page_id]

\* array_[index] read without a range check
SlotAt(pg, index) == pg.array_[index + 1]

\* BPlusTreeLeafPage::IsEmpty, BPlusTreeInternalPage::IsEmpty
LeafIsEmpty(pg) == pg.size_ = 0
InternalIsEmpty(pg) == pg.size_ = 1

\* BPlusTreePage::IsFull
IsFull(pg) == pg.size_ >= pg.max_size_

\* BPlusTreeLeafPage::Find: the first slot below size_ that holds the key,
\* or -1
LeafFind(pg, key) ==
    LET hits == {i \in 0 .. (pg.size_ - 1) : SlotAt(pg, i)[1] = key}
    IN  IF hits = {} THEN -1 ELSE CHOOSE i \in hits : \A j \in hits : i <= j

\* BPlusTreeInternalPage::KeyCmp: the bytes compared from the most
\* significant down, which is the order of the keys as unsigned integers
KeyCmp(lhs, rhs) == IF lhs < rhs THEN -1 ELSE IF lhs > rhs THEN 1 ELSE 0

\* BPlusTreeInternalPage::Find: -1 on a page with one slot; else i - 1 for the
\* first slot i >= 1 whose key is not below the searched key; else size - 1
InternalFind(pg, key) ==
    LET stops == {i \in 1 .. (pg.size_ - 1) : KeyCmp(key, SlotAt(pg, i)[1]) <= 0}
    IN  IF InternalIsEmpty(pg) THEN -1
        ELSE IF stops = {} THEN pg.size_ - 1
        ELSE (CHOOSE i \in stops : \A j \in stops : i <= j) - 1

\* ------------------------------------------------ the pool as the tree uses it
\* The tree reaches its pages through BufferPoolManager::FetchPage, NewPage
\* and UnpinPage and latches the frames it gets.  A pool of the tree is
\* [store, pin, latch, next_page_id_, calls, starve, stray, bare, nested]:
\*   store  page id -> the content of the page (ZeroPage when never written)
\*   pin    page id -> pins this thread holds
\*   latch  page id -> the latch this thread holds on the page's frame:
\*                     "none", "R" or "W"
\*   calls  frame requests made by the operation under way
\*   starve the request of the operation that finds every frame pinned
\*          (0: none does)
\*   stray  TRUE once the thread unpinned a page it held no pin on or
\*          released a latch it did not hold
\*   bare   TRUE once the thread held a latch on a frame it had no pin on
\*   nested TRUE once the thread called FetchPage, NewPage or UnpinPage
\*          while it held a latch
TreePool ==
    [store |-> [p \in TreePageIds |-> ZeroPage],
     pin |-> [p \in TreePageIds |-> 0],
     latch |-> [p \in TreePageIds |-> "none"],
     next_page_id_ |-> 0, calls |-> 0, starve |-> 0, stray |-> FALSE,
     bare |-> FALSE, nested |-> FALSE]

\* the next request for a frame is refused
Starved(b) == b.calls + 1 = b.starve

\* the thread holds a latch on some frame
Latching(b) == \E p \in TreePageIds : b.latch[p] # "none"

\* FetchPage(page_id) that returns a frame: one more pin
PoolFetch(b, page_id) ==
    [b EXCEPT !.calls = @ + 1, !.pin[page_id] = @ + 1, !.nested = @ \/ Latching(b)]

\* FetchPage or NewPage that returns nullptr
PoolRefuse(b) == [b EXCEPT !.calls = @ + 1, !.nested = @ \/ Latching(b)]

\* UnpinPage(page_id, is_dirty): false and no effect without a pin
PoolUnpin(b, page_id) ==
    IF b.pin[page_id] > 0
    THEN [b EXCEPT !.pin[page_id] = @ - 1,
                   !.nested = @ \/ Latching(b),
                   !.bare = @ \/ (b.pin[page_id] = 1 /\ b.latch[page_id] # "none")]
    ELSE [b EXCEPT !.stray = TRUE, !.nested = @ \/ Latching(b)]

\* Page::RLatch, Page::WLatch, Page::RUnlatch / WUnlatch
PoolLatch(b, page_id, mode) ==
    [b EXCEPT !.latch[page_id] = mode, !.bare = @ \/ (b.pin[page_id] = 0)]
PoolUnlatch(b, page_id) ==
    IF b.latch[page_id] # "none" THEN [b EXCEPT !.latch[page_id] = "none"]
    ELSE [b EXCEPT !.stray = TRUE]

\* ------------------------------------------------------------ the tree
\* A tree is [root_page_id_, leaf_max_size_, internal_max_size_, pool].
\* Every operation yields an outcome [st, ret, tree, result]: st as for the
\* replacer, ret the bool returned, result the vector GetValue appends to.

BPlusTree(leaf_max_size, internal_max_size) ==
    [root_page_id_ |-> INVALID_PAGE_ID, leaf_max_size_ |-> leaf_max_size,
     internal_max_size_ |-> internal_max_size, pool |-> TreePool]

Done(t, b, ret, result) ==
    [st |-> "ok", ret |-> ret, tree |-> [t EXCEPT !.pool = b], result |-> result]

\* a page id read from a page names a page of the store; any other number
\* names a page nothing was ever written to, as INVALID_PAGE_ID does
PageOf(id) == IF id \in TreePageIds THEN id ELSE INVALID_PAGE_ID

\* UnpinPage(cur_page_id, false); cur_frame->RUnlatch() or WUnlatch()
Release(b, page_id) == PoolUnlatch(PoolUnpin(b, page_id), page_id)

\* BPlusTree::IsEmpty: [pool, empty]
IsEmpty(t, b) ==
    IF t.root_page_id_ = INVALID_PAGE_ID THEN [pool |-> b, empty |-> TRUE]
    ELSE IF Starved(b) THEN [pool |-> PoolRefuse(b), empty |-> TRUE]
    ELSE LET root == b.store[t.root_page_id_]
         IN  [pool |-> PoolUnpin(PoolFetch(b, t.root_page_id_), t.root_page_id_),
              empty |-> root.page_type_ = "LEAF_PAGE" /\ LeafIsEmpty(root)]

RECURSIVE GetValueLoop(_, _, _, _)

\* the loop of GetValue with cur_page_id pinned and read-latched
GetValueLoop(t, b, cur_page_id, key) ==
    LET cur_page == b.store[cur_page_id]
        index == LeafFind(cur_page, key)
        child_id == PageOf(SlotAt(cur_page, InternalFind(cur_page, key))[2])
    IN  CASE cur_page.page_type_ = "INVALID_INDEX_PAGE" ->
               Done(t, Release(b, cur_page_id), FALSE, << >>)
          [] cur_page.page_type_ = "INTERNAL_PAGE" ->
               IF InternalIsEmpty(cur_page)
               THEN Done(t, Release(b, cur_page_id), FALSE, << >>)
               ELSE IF Starved(b)
               THEN Done(t, PoolUnlatch(PoolUnpin(PoolUnpin(PoolRefuse(b), cur_page_id),
                                                  child_id), cur_page_id),
                         FALSE, << >>)
               ELSE GetValueLoop(t,
                        Release(PoolLatch(PoolFetch(b, child_id), child_id, "R"),
                                cur_page_id),
                        child_id, key)
          [] OTHER ->
               IF LeafIsEmpty(cur_page) \/ index < 0
               THEN Done(t, Release(b, cur_page_id), FALSE, << >>)
               ELSE Done(t, Release(b, cur_page_id), TRUE, <<SlotAt(cur_page, index)[2]>>)

\* BPlusTree::GetValue(key, result): starve is the frame request of this call
\* the pool refuses
GetValue(t, key, starve) ==
    LET b0 == [t.pool EXCEPT !.calls = 0, !.starve = starve]
        e == IsEmpty(t, b0)
        b1 == e.pool
    IN  IF e.empty THEN Done(t, b1, FALSE, << >>)
        ELSE IF Starved(b1) THEN Done(t, PoolRefuse(b1), FALSE, << >>)
        ELSE GetValueLoop(t,
                 PoolLatch(PoolFetch(b1, t.root_page_id_), t.root_page_id_, "R"),
                 t.root_page_id_, key)

\* an operation that does not return: BUSTUB_ENSURE failed or a null frame
\* was dereferenced ("crash"), or the thread waits for a latch it holds
\* itself ("hang")
Stop(t, b, st) ==
    [st |-> st, ret |-> FALSE, tree |-> [t EXCEPT !.pool = b], result |-> << >>]

RECURSIVE ReleaseAll(_, _)

\* while (!locked_frames.empty()) { UnpinPage(top); top->WUnlatch(); pop(); }
ReleaseAll(b, locked_frames) ==
    IF locked_frames = << >> THEN b
    ELSE ReleaseAll(Release(b, locked_frames[Len(locked_frames)]),
                    SubSeq(locked_frames, 1, Len(locked_frames) - 1))

RECURSIVE InsertLeafLoop(_, _, _, _)

\* the loop of InsertLeaf from slot i on with temp in hand: [page, end], end
\* being "ensure" when KeyAt or operator[] is handed an index that is not
\* below size_, "false" at return false, "fell" when the loop ran out and
\* the size was increased
InsertLeafLoop(pg, temp, key, i) ==
    IF i >= pg.size_ + 1
    THEN [page |-> [pg EXCEPT !.size_ = @ + 1], end |-> "fell"]
    ELSE IF i >= pg.size_ THEN [page |-> pg, end |-> "ensure"]
    ELSE IF SlotAt(pg, i)[1] = key THEN [page |-> pg, end |-> "false"]
    ELSE IF SlotAt(pg, i)[1] < key THEN InsertLeafLoop(pg, temp, key, i + 1)
    ELSE InsertLeafLoop([pg EXCEPT !.array_[i + 1] = temp], SlotAt(pg, i), key, i + 1)

\* BPlusTree::InsertLeaf(page, key, value)
InsertLeaf(pg, key, value) == InsertLeafLoop(pg, <<key, value>>, key, 0)

RECURSIVE LowerHalfLoop(_, _, _)

\* the first loop of InsertLeafOverflow: slots 0 .. max_size/2 - 1 of the
\* full leaf, with temp in hand
LowerHalfLoop(pg, temp, i) ==
    IF i >= pg.max_size_ \div 2 THEN pg
    ELSE IF SlotAt(pg, i)[1] < temp[1] THEN LowerHalfLoop(pg, temp, i + 1)
    ELSE LowerHalfLoop([pg EXCEPT !.array_[i + 1] = temp], SlotAt(pg, i), i + 1)

\* BPlusTree::InsertLeafOverflow on the full leaf cur_page_id: the pool after
\* the call stopped.  NewPage gives the frame of a new page, pinned, which is
\* latched and initialised with the default max_size (more than any size a
\* tree is built with); the lower half of the leaf is rewritten and its size
\* set to max_size/2; then KeyAt(max_size/2 - 1) or, in the second loop,
\* KeyAt(max_size/2) is past the new size and BUSTUB_ENSURE fails.
InsertLeafOverflow(b, cur_page_id, key, value) ==
    LET page == b.store[cur_page_id]
        new_page_id == b.next_page_id_
        b1 == PoolLatch([PoolFetch(b, new_page_id) EXCEPT !.next_page_id_ = @ + 1],
                        new_page_id, "W")
        new_leaf == LeafInit(ZeroPage, new_page_id, page.parent_page_id_, MaxSlots)
        lower == [LowerHalfLoop(page, <<key, value>>, 0) EXCEPT
                     !.size_ = page.max_size_ \div 2]
    IN  IF Starved(b) THEN PoolRefuse(b)
        ELSE [b1 EXCEPT !.store[new_page_id] = new_leaf, !.store[cur_page_id] = lower]

RECURSIVE InsertLoop(_, _, _, _, _, _)

\* the loop of Insert with cur_page_id the page cur_page points to: the set
\* of outcomes
InsertLoop(t, b, cur_page_id, locked_frames, key, value) ==
    LET cur_page == b.store[cur_page_id]
        kept == IF IsFull(cur_page) THEN b ELSE ReleaseAll(b, locked_frames)
        pushed == IF IsFull(cur_page) THEN Append(locked_frames, cur_page_id)
                  ELSE <<cur_page_id>>
        \* ValueAt(Find(key)): Find answers -1 on a page with one slot and
        \* array_[-1] is whatever lies before the array
        children == IF InternalFind(cur_page, key) < 0 THEN TreePageIds
                    ELSE {PageOf(SlotAt(cur_page, InternalFind(cur_page, key))[2])}
        leaf == InsertLeaf(cur_page, key, value)
        written == [b EXCEPT !.store[cur_page_id] = leaf.page]
    IN  CASE cur_page.page_type_ = "INVALID_INDEX_PAGE" ->
               {Done(t, ReleaseAll(Release(b, cur_page_id), locked_frames), FALSE, << >>)}
          [] cur_page.page_type_ = "INTERNAL_PAGE" ->
               UNION {
                 IF Starved(kept)
                 THEN {Done(t, ReleaseAll(Release(PoolRefuse(kept), cur_page_id), pushed),
                            FALSE, << >>)}
                 ELSE IF kept.latch[child_id] # "none"
                 THEN {Stop(t, PoolFetch(kept, child_id), "hang")}
                 ELSE InsertLoop(t, PoolLatch(PoolFetch(kept, child_id), child_id, "W"),
                                 child_id, pushed, key, value)
                 : child_id \in children}
          [] OTHER ->
               IF LeafFind(cur_page, key) >= 0
               THEN {Done(t, ReleaseAll(Release(b, cur_page_id), locked_frames),
                          FALSE, << >>)}
               ELSE IF ~IsFull(cur_page)
               THEN IF leaf.end = "ensure" THEN {Stop(t, written, "crash")}
                    ELSE \* no return follows: the loop goes round again
                         InsertLoop(t, ReleaseAll(Release(written, cur_page_id),
                                                  locked_frames),
                                    cur_page_id, << >>, key, value)
               ELSE {Stop(t, InsertLeafOverflow(b, cur_page_id, key, value), "crash")}

\* BPlusTree::Insert(key, value): FetchPage(root_page_id_) whatever the root
\* page id is; starve is the frame request of this call the pool refuses
Insert(t, key, value, starve) ==
    LET b0 == [t.pool EXCEPT !.calls = 0, !.starve = starve]
        cur_page_id == t.root_page_id_
    IN  IF Starved(b0) THEN {Done(t, PoolRefuse(b0), FALSE, << >>)}
        ELSE InsertLoop(t, PoolLatch(PoolFetch(b0, cur_page_id), cur_page_id, "W"),
                        cur_page_id, << >>, key, value)

\* ============================================================ buffer pool
VARIABLES
    pool_size_,
    pages_,          \* frame -> [page_id_, pin_count_, is_dirty_, data_]
    free_list_,      \* std::list<int>
    page_table_,     \* ExtendibleHashTable<page_id_t, frame_id_t>
    replacer_,       \* LRUKReplacer
    next_page_id_,
    disk,            \* the disk manager's pages: page id -> payload
    ndebug,          \* TRUE when the build defines NDEBUG (assertions off)
    fault,           \* "none", or how the process stopped: "crash", "hang"
    ret,             \* what the last call returned: "page", "null", "true",
                     \* "false", "void", or how it stopped the process
    held,            \* page -> successful new/fetch minus successful unpin
                     \*         since the page became resident
    rt,              \* page -> [stage, b]: progress of the round trip
                     \*         new; write b; unpin dirty; evict; fetch
    observe,         \* which of ret ("call"), held ("pins"), rt ("trip")
                     \* this behaviour records; the other two stay as they
                     \* start
    hist,            \* frame -> the timestamps of the accesses a replacer
                     \*          driven on its own has recorded for the
                     \*          frame since it began to track it
    asked,           \* frame -> the argument of the last set_evictable call
                     \*          on the frame since the replacer began to
                     \*          track it: "true", "false", or "none"
    table,           \* an ExtendibleHashTable<int, int> driven on its own
    expect,          \* key -> the value of the last insert of the key not
                     \*        followed by a remove, or Absent
    value_out,       \* the out-parameter of the table's last Find
    tree,            \* a BPlusTree driven on its own, with its pool
    result,          \* the vector the tree's last GetValue filled
    inserted,        \* key -> the value of the first Insert call for the
                     \*        key, or Absent
    called,          \* the tree's last call: <<operation, key, value>>
    mu_,             \* the table's std::shared_mutex mu_: [writer, readers]
    latch_,          \* the table's std::mutex latch_: its holder, or 0
    thread           \* thread -> the call of the table, or of the tree, it is
                     \*           in, and where

vars == <<pool_size_, pages_, free_list_, page_table_, replacer_, next_page_id_, disk,
          ndebug, fault, ret, held, rt, observe, hist, asked, table, expect, value_out,
          tree, result, inserted, called, mu_, latch_, thread>>

\* the variables of the pool alone, of the observers of a replacer driven on
\* its own, and of a hash table driven on its own
poolVars == <<pool_size_, pages_, free_list_, page_table_, next_page_id_, disk, held, rt>>
lruVars == <<hist, asked>>
lockVars == <<mu_, latch_, thread>>
hashVars == <<table, expect, value_out, lockVars>>
treeVars == <<tree, result, inserted, called>>
notPool == <<lruVars, hashVars, treeVars>>
notLru == <<poolVars, hashVars, treeVars>>
notHash == <<poolVars, replacer_, lruVars, treeVars>>
notTree == <<poolVars, replacer_, lruVars, hashVars>>

AllPages == {INVALID_PAGE_ID} \cup PageIds
Frames == 0 .. (pool_size_ - 1)

\* Page(): no page, unpinned, clean, zeroed
EmptyPage == [page_id_ |-> INVALID_PAGE_ID, pin_count_ |-> 0,
              is_dirty_ |-> FALSE, data_ |-> 0]

NoTrip == [stage |-> "none", b |-> 0]

Ret(value) == IF observe = "call" THEN value ELSE ret

Pins(h) == IF observe = "pins" THEN h ELSE held

Trip(t) == IF observe = "trip" THEN t ELSE rt

\* BufferPoolManagerInstance(pool_size, disk_manager, replacer_k)
NoHist == [f \in 0 .. (MaxFrames - 1) |-> << >>]
NoAsk == [f \in 0 .. (MaxFrames - 1) |-> "none"]
Absent == -1
Keys == 0 .. (MaxKey - 1)
NoExpect == [key \in Keys |-> Absent]

\* no replacer is driven on its own, no hash table is driven on its own
LruIdle == hist = NoHist /\ asked = NoAsk
Threads == 1 .. MaxThreads
Unlocked == [writer |-> 0, readers |-> {}]
NoThread == [op |-> "none", pc |-> "idle", key |-> 0, value |-> 0, todo |-> << >>,
             known |-> FALSE, may |-> {}, met |-> FALSE, ret |-> "void", out |-> Absent]
LockIdle == mu_ = Unlocked /\ latch_ = 0 /\ thread = [t \in Threads |-> NoThread]
HashIdle == table = HTNew /\ expect = NoExpect /\ value_out = Absent /\ LockIdle
NoCall == <<"none", 0, 0>>
TreeIdle ==
    tree = BPlusTree(0, 0) /\ result = << >> /\ inserted = NoExpect /\ called = NoCall

BPMInit(pool_size) ==
    /\ pool_size_ = pool_size
    /\ pages_ = [f \in 0 .. (pool_size - 1) |-> EmptyPage]
    /\ free_list_ = [i \in 1 .. pool_size |-> i - 1]
    /\ page_table_ = HTNew
    /\ \E k \in 1 .. MaxK : replacer_ = LRUKReplacer(pool_size, k)
    /\ next_page_id_ = 0
    /\ disk = [p \in AllPages |-> 0]
    /\ ndebug \in BOOLEAN
    /\ fault = "none"
    /\ ret = "void"
    /\ held = [p \in AllPages |-> 0]
    /\ rt = [p \in PageIds |-> NoTrip]
    /\ LruIdle
    /\ HashIdle
    /\ TreeIdle

\* page_table_->Find(page_id, frame_id) on a directory that exists
Resident(pt, page_id) == ~HTFindUndefined(pt) /\ HTFind(pt, page_id).found
FrameOf(pt, page_id) == HTFind(pt, page_id).value

\* the victim-frame acquisition of NewPgImp and FetchPgImp: the front of the
\* free list, else replacer_->Evict
TakeFrame(fl, r) ==
    IF fl # << >>
    THEN {[st |-> "ok", ret |-> TRUE, frame |-> Head(fl), fl |-> Tail(fl), r |-> r]}
    ELSE {[st |-> o.st, ret |-> o.ret, frame |-> o.frame, fl |-> fl, r |-> o.r] :
             o \in Evict(r)}

\* if (pages_[f].IsDirty()) disk_manager_->WritePage(page id, data)
FlushVictimSkip(old, d) == d
FlushVictim(old, d) ==
    IF old.is_dirty_ THEN [d EXCEPT ![old.page_id_] = old.data_] ELSE d

\* replacer_->RecordAccess(f); replacer_->SetEvictable(f, false)
RecordAndPin(r, f, nd) ==
    UNION {IF o.st = "ok" THEN SetEvictable(o.r, f, FALSE, nd) ELSE {o} :
              o \in RecordAccess(r, f, nd)}

\* pages_[frame_id].pin_count_++
PinAgainSkip(pg) == pg
PinAgain(pg) == [pg EXCEPT !.pin_count_ = @ + 1]

\* if (is_dirty) pages_[frame_id].is_dirty_ = true
MarkDirtyAssign(pg, is_dirty) == [pg EXCEPT !.is_dirty_ = is_dirty]
MarkDirty(pg, is_dirty) ==
    IF is_dirty THEN [pg EXCEPT !.is_dirty_ = TRUE] ELSE pg

Stopped(st) == IF st = "ok" THEN "none" ELSE st

\* the page a victim frame gives up leaves the round trip or completes its
\* eviction step; the page installed starts at stage s
TripEvict(trip, old_page) ==
    IF old_page \in PageIds
    THEN [trip EXCEPT ![old_page] =
            IF @.stage = "unpinned" THEN [@ EXCEPT !.stage = "evicted"] ELSE NoTrip]
    ELSE trip

\* BufferPoolManagerInstance::NewPgImp
NewPgImp(null_arg) ==
    /\ fault = "none"
    /\ IF null_arg
       THEN /\ ret' = Ret("null")
            /\ UNCHANGED <<pool_size_, pages_, free_list_, page_table_, replacer_,
                           next_page_id_, disk, ndebug, observe, fault, held, rt>>
       ELSE \E v \in TakeFrame(free_list_, replacer_) :
              IF v.st # "ok"
              THEN /\ fault' = v.st
                   /\ ret' = Ret(v.st)
                   /\ UNCHANGED <<pool_size_, pages_, free_list_, page_table_, replacer_,
                                  next_page_id_, disk, ndebug, observe, held, rt>>
              ELSE IF ~v.ret
              THEN /\ ret' = Ret("null")
                   /\ replacer_' = v.r
                   /\ UNCHANGED <<pool_size_, pages_, free_list_, page_table_,
                                  next_page_id_, disk, ndebug, observe, fault, held, rt>>
              ELSE LET f == v.frame
                       old == pages_[f]
                       new_page == next_page_id_
                   IN  /\ next_page_id_ < MaxPages
                       /\ v.r.timestamp_ < MaxTime
                       /\ \E o \in RecordAndPin(v.r, f, ndebug) :
                            /\ fault' = Stopped(o.st)
                            /\ replacer_' = o.r
                            /\ ret' = Ret(IF o.st = "ok" THEN "page" ELSE o.st)
                       /\ disk' = FlushVictim(old, disk)
                       /\ page_table_' =
                            HTInsert(HTRemove(page_table_, old.page_id_), new_page, f)
                       /\ next_page_id_' = next_page_id_ + 1
                       /\ pages_' = [pages_ EXCEPT ![f] =
                            [page_id_ |-> new_page, pin_count_ |-> 1,
                             is_dirty_ |-> FALSE, data_ |-> 0]]
                       /\ free_list_' = v.fl
                       /\ held' = Pins([held EXCEPT ![old.page_id_] = 0, ![new_page] = 1])
                       /\ rt' = Trip([TripEvict(rt, old.page_id_) EXCEPT
                                   ![new_page] = [stage |-> "new", b |-> 0]])
                       /\ UNCHANGED <<pool_size_, ndebug, observe, observe>>

\* BufferPoolManagerInstance::FetchPgImp
FetchPgImp(page_id) ==
    /\ fault = "none"
    /\ IF HTFindUndefined(page_table_)
       THEN /\ fault' = "crash"
            /\ ret' = Ret("crash")
            /\ UNCHANGED <<pool_size_, pages_, free_list_, page_table_, replacer_,
                           next_page_id_, disk, ndebug, observe, held, rt>>
       ELSE IF HTFind(page_table_, page_id).found
       THEN LET f == FrameOf(page_table_, page_id)
            IN  /\ pages_[f].pin_count_ < MaxPin
                /\ pages_' = [pages_ EXCEPT ![f] = PinAgain(@)]
                /\ ret' = Ret("page")
                /\ held' = Pins([held EXCEPT ![page_id] = @ + 1])
                /\ UNCHANGED <<pool_size_, free_list_, page_table_, replacer_, next_page_id_,
                               disk, ndebug, observe, fault, rt>>
       ELSE \E v \in TakeFrame(free_list_, replacer_) :
              IF v.st # "ok"
              THEN /\ fault' = v.st
                   /\ ret' = Ret(v.st)
                   /\ UNCHANGED <<pool_size_, pages_, free_list_, page_table_, replacer_,
                                  next_page_id_, disk, ndebug, observe, held, rt>>
              ELSE IF ~v.ret
              THEN /\ ret' = Ret("null")
                   /\ replacer_' = v.r
                   /\ UNCHANGED <<pool_size_, pages_, free_list_, page_table_,
                                  next_page_id_, disk, ndebug, observe, fault, held, rt>>
              ELSE LET f == v.frame
                       old == pages_[f]
                       disk1 == FlushVictim(old, disk)
                   IN  /\ v.r.timestamp_ < MaxTime
                       /\ \E o \in RecordAndPin(v.r, f, ndebug) :
                            /\ fault' = Stopped(o.st)
                            /\ replacer_' = o.r
                            /\ ret' = Ret(IF o.st = "ok" THEN "page" ELSE o.st)
                            /\ pages_' = [pages_ EXCEPT ![f] =
                                 [page_id_ |-> page_id, pin_count_ |-> 1,
                                  is_dirty_ |-> FALSE,
                                  data_ |-> IF o.st = "ok" THEN disk1[page_id] ELSE 0]]
                       /\ disk' = disk1
                       /\ page_table_' =
                            HTInsert(HTRemove(page_table_, old.page_id_), page_id, f)
                       /\ free_list_' = v.fl
                       /\ held' = Pins([[held EXCEPT ![old.page_id_] = 0] EXCEPT ![page_id] = 1])
                       /\ rt' = LET t == TripEvict(rt, old.page_id_)
                                IN  Trip(IF page_id \in PageIds
                                         THEN [t EXCEPT ![page_id] =
                                                 IF @.stage = "evicted"
                                                 THEN [@ EXCEPT !.stage = "fetched"]
                                                 ELSE NoTrip]
                                         ELSE t)
                       /\ UNCHANGED <<pool_size_, next_page_id_, ndebug, observe>>

\* if (!page_table_->Find(..) || pages_[frame_id].GetPinCount() <= 0) return false
UnpinRefusedNever(pg) == FALSE
UnpinRefused(pg) == pg.pin_count_ <= 0

\* BufferPoolManagerInstance::UnpinPgImp
UnpinPgImp(page_id, is_dirty) ==
    /\ fault = "none"
    /\ IF HTFindUndefined(page_table_)
       THEN /\ fault' = "crash"
            /\ ret' = Ret("crash")
            /\ UNCHANGED <<pool_size_, pages_, free_list_, page_table_, replacer_,
                           next_page_id_, disk, ndebug, observe, held, rt>>
       ELSE IF \/ ~HTFind(page_table_, page_id).found
               \/ UnpinRefused(pages_[FrameOf(page_table_, page_id)])
       THEN /\ ret' = Ret("false")
            /\ UNCHANGED <<pool_size_, pages_, free_list_, page_table_, replacer_,
                           next_page_id_, disk, ndebug, observe, fault, held, rt>>
       ELSE LET f == FrameOf(page_table_, page_id)
                pg == [pages_[f] EXCEPT !.pin_count_ = @ - 1]
            IN  /\ \E o \in (IF pg.pin_count_ = 0
                             THEN SetEvictable(replacer_, f, TRUE, ndebug)
                             ELSE {Ok(replacer_)}) :
                     /\ fault' = Stopped(o.st)
                     /\ replacer_' = o.r
                     /\ ret' = Ret(IF o.st = "ok" THEN "true" ELSE o.st)
                     /\ pages_' = [pages_ EXCEPT ![f] =
                          IF o.st = "ok" THEN MarkDirty(pg, is_dirty) ELSE pg]
                     /\ held' = Pins(IF o.st = "ok"
                                     THEN [held EXCEPT ![page_id] = @ - 1] ELSE held)
                     /\ rt' = Trip(IF o.st = "ok" /\ page_id \in PageIds
                                   THEN [rt EXCEPT ![page_id] =
                                      IF @.stage \in {"unpinned", "fetched"} THEN @
                                      ELSE IF is_dirty /\ @.stage \in {"new", "written"}
                                      THEN [@ EXCEPT !.stage = "unpinned"]
                                      ELSE NoTrip]
                                   ELSE rt)
                /\ UNCHANGED <<pool_size_, free_list_, page_table_, next_page_id_, disk, ndebug, observe>>

\* BufferPoolManagerInstance::FlushPgImp
FlushPgImp(page_id) ==
    /\ fault = "none"
    /\ IF page_id = INVALID_PAGE_ID
       THEN /\ ret' = Ret("false")
            /\ UNCHANGED <<pool_size_, pages_, free_list_, page_table_, replacer_,
                           next_page_id_, disk, ndebug, observe, fault, held, rt>>
       ELSE IF HTFindUndefined(page_table_)
       THEN /\ fault' = "crash"
            /\ ret' = Ret("crash")
            /\ UNCHANGED <<pool_size_, pages_, free_list_, page_table_, replacer_,
                           next_page_id_, disk, ndebug, observe, held, rt>>
       ELSE IF \/ ~HTFind(page_table_, page_id).found
               \/ pages_[FrameOf(page_table_, page_id)].page_id_ = INVALID_PAGE_ID
       THEN /\ ret' = Ret("false")
            /\ UNCHANGED <<pool_size_, pages_, free_list_, page_table_, replacer_,
                           next_page_id_, disk, ndebug, observe, fault, held, rt>>
       ELSE LET f == FrameOf(page_table_, page_id)
            IN  /\ disk' = [disk EXCEPT ![page_id] = pages_[f].data_]
                /\ pages_' = [pages_ EXCEPT ![f].is_dirty_ = FALSE]
                /\ ret' = Ret("true")
                /\ UNCHANGED <<pool_size_, free_list_, page_table_, replacer_, next_page_id_,
                               ndebug, observe, fault, held, rt>>

RECURSIVE WriteAll(_, _, _)
\* the loop of FlushAllPgsImp over frames i .. pool_size_-1
WriteAll(pg, d, i) ==
    IF i >= pool_size_ THEN d
    ELSE WriteAll(pg,
                  IF pg[i].page_id_ # INVALID_PAGE_ID
                  THEN [d EXCEPT ![pg[i].page_id_] = pg[i].data_] ELSE d,
                  i + 1)

\* BufferPoolManagerInstance::FlushAllPgsImp
FlushAllPgsImp ==
    /\ fault = "none"
    /\ disk' = WriteAll(pages_, disk, 0)
    /\ pages_' = [f \in Frames |->
                    IF pages_[f].page_id_ # INVALID_PAGE_ID
                    THEN [pages_[f] EXCEPT !.is_dirty_ = FALSE] ELSE pages_[f]]
    /\ ret' = Ret("void")
    /\ UNCHANGED <<pool_size_, free_list_, page_table_, replacer_, next_page_id_, ndebug, observe,
                   fault, held, rt>>

\* BufferPoolManagerInstance::DeletePgImp
DeletePgImp(page_id) ==
    /\ fault = "none"
    /\ IF HTFindUndefined(page_table_)
       THEN /\ fault' = "crash"
            /\ ret' = Ret("crash")
            /\ UNCHANGED <<pool_size_, pages_, free_list_, page_table_, replacer_,
                           next_page_id_, disk, ndebug, observe, held, rt>>
       ELSE IF ~HTFind(page_table_, page_id).found
       THEN /\ ret' = Ret("true")
            /\ UNCHANGED <<pool_size_, pages_, free_list_, page_table_, replacer_,
                           next_page_id_, disk, ndebug, observe, fault, held, rt>>
       ELSE IF pages_[FrameOf(page_table_, page_id)].pin_count_ > 0
       THEN /\ ret' = Ret("false")
            /\ UNCHANGED <<pool_size_, pages_, free_list_, page_table_, replacer_,
                           next_page_id_, disk, ndebug, observe, fault, held, rt>>
       ELSE LET f == FrameOf(page_table_, page_id)
                old == pages_[f]
            IN  /\ disk' = FlushVictim(old, disk)
                /\ page_table_' = HTRemove(page_table_, page_id)
                /\ \E o \in Remove(replacer_, f, ndebug) :
                     /\ fault' = Stopped(o.st)
                     /\ replacer_' = o.r
                     /\ ret' = Ret(IF o.st = "ok" THEN "true" ELSE o.st)
                     /\ free_list_' = IF o.st = "ok" THEN Append(free_list_, f)
                                      ELSE free_list_
                     /\ pages_' = [pages_ EXCEPT ![f] =
                          IF o.st = "ok" THEN EmptyPage
                          ELSE [old EXCEPT !.is_dirty_ = FALSE]]
                /\ held' = Pins([held EXCEPT ![page_id] = 0])
                /\ rt' = Trip(IF page_id \in PageIds
                              THEN [rt EXCEPT ![page_id] = NoTrip] ELSE rt)
                /\ UNCHANGED <<pool_size_, next_page_id_, ndebug, observe>>

\* A client that holds a pin on frame f stores payload b through
\* Page::GetData().
WriteData(f, b) ==
    /\ fault = "none"
    /\ pages_[f].pin_count_ > 0
    /\ pages_[f].data_ # b
    /\ pages_' = [pages_ EXCEPT ![f].data_ = b]
    /\ ret' = Ret("void")
    /\ rt' = LET q == pages_[f].page_id_
             IN  Trip(IF q \in PageIds
                      THEN [rt EXCEPT ![q] =
                              IF @.stage \in {"new", "written"}
                              THEN [stage |-> "written", b |-> b] ELSE NoTrip]
                      ELSE rt)
    /\ UNCHANGED <<pool_size_, free_list_, page_table_, replacer_, next_page_id_, disk,
                   ndebug, observe, fault, held>>

New == (\E null_arg \in BOOLEAN : NewPgImp(null_arg)) /\ UNCHANGED notPool
Fetch == (\E page_id \in AllPages : FetchPgImp(page_id)) /\ UNCHANGED notPool
Unpin ==
    /\ \E page_id \in AllPages, is_dirty \in BOOLEAN : UnpinPgImp(page_id, is_dirty)
    /\ UNCHANGED notPool
Flush == (\E page_id \in AllPages : FlushPgImp(page_id)) /\ UNCHANGED notPool
FlushAll == FlushAllPgsImp /\ UNCHANGED notPool
Delete == (\E page_id \in AllPages : DeletePgImp(page_id)) /\ UNCHANGED notPool

\* The calls of the pool with every argument, INVALID_PAGE_ID included; page
\* payloads stay zero.
Init == (\E n \in 1 .. PoolSize : BPMInit(n)) /\ observe = "call"
Next == New \/ Fetch \/ Unpin \/ Flush \/ FlushAll \/ Delete
Spec == Init /\ [][Next]_vars

\* The same calls, recording the pins every page holds instead of the call.
PinsInit == (\E n \in 1 .. PoolSize : BPMInit(n)) /\ observe = "pins"
SpecPins == PinsInit /\ [][Next]_vars

\* clients fetch the pages AllocatePage has handed out
FetchPage ==
    /\ \E page_id \in 0 .. (next_page_id_ - 1) : FetchPgImp(page_id)
    /\ UNCHANGED notPool
UnpinPage ==
    /\ \E page_id \in PageIds, is_dirty \in BOOLEAN : UnpinPgImp(page_id, is_dirty)
    /\ UNCHANGED notPool
FlushPage == (\E page_id \in PageIds : FlushPgImp(page_id)) /\ UNCHANGED notPool
DeletePage == (\E page_id \in PageIds : DeletePgImp(page_id)) /\ UNCHANGED notPool
Write == (\E f \in Frames, b \in Data : WriteData(f, b)) /\ UNCHANGED notPool

\* The pool used by clients that take their page ids from new_page and
\* store payloads in the frames they have pinned.
TripInit == (\E n \in 1 .. PoolSize : BPMInit(n)) /\ observe = "trip"
TripNext == New \/ FetchPage \/ UnpinPage \/ FlushPage \/ FlushAll \/ DeletePage \/ Write
SpecTrip == TripInit /\ [][TripNext]_vars

\* no pool is built
PoolIdle ==
    /\ pool_size_ = 0
    /\ pages_ = << >>
    /\ free_list_ = << >>
    /\ page_table_ = HTNew
    /\ next_page_id_ = 0
    /\ disk = [p \in AllPages |-> 0]
    /\ held = [p \in AllPages |-> 0]
    /\ rt = [p \in PageIds |-> NoTrip]

\* ------------------------------------------------------------ the replacer alone
\* A replacer of up to MaxFrames frames driven directly by record_access and
\* evict; every frame stays evictable.  The pool around it is not built.
Tracked == DOMAIN replacer_.map_

\* RecordAccess(frame_id) called by a client of the replacer
RecordAccessCall(frame_id) ==
    /\ fault = "none"
    /\ replacer_.timestamp_ < MaxAccess
    /\ \E o \in RecordAccess(replacer_, frame_id, ndebug) :
          /\ replacer_' = o.r
          /\ fault' = Stopped(o.st)
          /\ ret' = Ret(IF o.st = "ok" THEN "void" ELSE o.st)
          /\ hist' = IF o.st = "ok" /\ o.r.timestamp_ > replacer_.timestamp_
                     THEN [hist EXCEPT ![frame_id] = Append(@, o.r.timestamp_)]
                     ELSE hist
    /\ UNCHANGED asked
    /\ UNCHANGED <<notLru, ndebug, observe>>

\* Evict(&frame_id) called by a client of the replacer
EvictCall ==
    /\ fault = "none"
    /\ \E o \in Evict(replacer_) :
          /\ replacer_' = o.r
          /\ fault' = Stopped(o.st)
          /\ ret' = Ret(IF o.st # "ok" THEN o.st ELSE IF o.ret THEN "true" ELSE "false")
          /\ hist' = IF o.st = "ok" /\ o.ret
                     THEN [hist EXCEPT ![o.frame] = << >>]
                     ELSE hist
          /\ asked' = IF o.st = "ok" /\ o.ret
                      THEN [asked EXCEPT ![o.frame] = "none"]
                      ELSE asked
    /\ UNCHANGED <<notLru, ndebug, observe>>

Access == \E frame_id \in 0 .. (replacer_.replacer_size_ - 1) : RecordAccessCall(frame_id)

LRUInit ==
    /\ \E n \in 1 .. MaxFrames, k \in 1 .. MaxLruK : replacer_ = LRUKReplacer(n, k)
    /\ LruIdle
    /\ HashIdle
    /\ TreeIdle
    /\ PoolIdle
    /\ ndebug \in BOOLEAN
    /\ fault = "none"
    /\ ret = "void"
    /\ observe = "call"
LRUNext == Access \/ EvictCall
SpecLRU == LRUInit /\ [][LRUNext]_vars

\* SetEvictable(frame_id, set_evictable) called by a client of the replacer
SetEvictableCall(frame_id, set_evictable) ==
    /\ fault = "none"
    /\ \E o \in SetEvictable(replacer_, frame_id, set_evictable, ndebug) :
          /\ replacer_' = o.r
          /\ fault' = Stopped(o.st)
          /\ ret' = Ret(IF o.st = "ok" THEN "void" ELSE o.st)
    /\ asked' = IF frame_id \in Tracked
                THEN [asked EXCEPT ![frame_id] = IF set_evictable THEN "true" ELSE "false"]
                ELSE asked
    /\ UNCHANGED <<hist, notLru, ndebug, observe>>

\* Remove(frame_id) called by a client of the replacer
RemoveCall(frame_id) ==
    /\ fault = "none"
    /\ \E o \in Remove(replacer_, frame_id, ndebug) :
          /\ replacer_' = o.r
          /\ fault' = Stopped(o.st)
          /\ ret' = Ret(IF o.st = "ok" THEN "void" ELSE o.st)
    /\ hist' = [hist EXCEPT ![frame_id] = << >>]
    /\ asked' = [asked EXCEPT ![frame_id] = "none"]
    /\ UNCHANGED <<notLru, ndebug, observe>>

SetEvictableAny ==
    \E frame_id \in 0 .. (replacer_.replacer_size_ - 1), set_evictable \in BOOLEAN :
        SetEvictableCall(frame_id, set_evictable)
RemoveAny == \E frame_id \in 0 .. (replacer_.replacer_size_ - 1) : RemoveCall(frame_id)

\* The replacer driven by all four of its operations, as the pool builds it:
\* 1 .. PoolSize frames, k in 1 .. MaxK.
ReplacerInit ==
    /\ \E n \in 1 .. PoolSize, k \in 1 .. MaxK : replacer_ = LRUKReplacer(n, k)
    /\ LruIdle
    /\ HashIdle
    /\ TreeIdle
    /\ PoolIdle
    /\ ndebug \in BOOLEAN
    /\ fault = "none"
    /\ ret = "void"
    /\ observe = "call"
ReplacerNext == Access \/ EvictCall \/ SetEvictableAny \/ RemoveAny
SpecReplacer == ReplacerInit /\ [][ReplacerNext]_vars

\* The replacer driven by clients that name one frame more than its capacity:
\* frame ids 0 .. replacer_size_.  No operation of the replacer compares
\* frame_id with replacer_size_.
Crowd == 0 .. replacer_.replacer_size_
AccessCrowd == \E frame_id \in Crowd : RecordAccessCall(frame_id)
SetEvictableCrowd ==
    \E frame_id \in Crowd, set_evictable \in BOOLEAN :
        SetEvictableCall(frame_id, set_evictable)
RemoveCrowd == \E frame_id \in Crowd : RemoveCall(frame_id)
CrowdNext == AccessCrowd \/ EvictCall \/ SetEvictableCrowd \/ RemoveCrowd
CrowdInit ==
    /\ \E n \in 1 .. MaxCrowd, k \in 1 .. MaxK : replacer_ = LRUKReplacer(n, k)
    /\ LruIdle
    /\ HashIdle
    /\ TreeIdle
    /\ PoolIdle
    /\ ndebug \in BOOLEAN
    /\ fault = "none"
    /\ ret = "void"
    /\ observe = "call"
SpecCrowd == CrowdInit /\ [][CrowdNext]_vars

\* ============================================================ hash table alone
Values == 0 .. MaxValue

\* Insert(key, value) called by a client of the table
HashInsert(key, value) ==
    /\ fault = "none"
    /\ table' = HTInsert(table, key, value)
    /\ expect' = [expect EXCEPT ![key] = value]
    /\ ret' = "void"
    /\ fault' = "none"
    /\ UNCHANGED <<value_out, lockVars, notHash, ndebug, observe>>

\* Remove(key) called by a client of the table: false on an empty directory,
\* else what Bucket::Remove returns
HashRemove(key) ==
    /\ fault = "none"
    /\ table' = HTRemove(table, key)
    /\ expect' = [expect EXCEPT ![key] = Absent]
    /\ ret' = IF table.dir_ # << >> /\ HTFind(table, key).found THEN "true" ELSE "false"
    /\ fault' = "none"
    /\ UNCHANGED <<value_out, lockVars, notHash, ndebug, observe>>

\* Find(key, value) called by a client of the table.  On an empty directory
\* dir_[index] is read out of range: the process dies, or the call returns
\* either answer with anything in the out-parameter.
HashFind(key) ==
    /\ fault = "none"
    /\ IF HTFindUndefined(table)
       THEN \/ fault' = "crash" /\ ret' = "crash" /\ value_out' = value_out
            \/ /\ fault' = "none"
               /\ ret' \in {"true", "false"}
               /\ value_out' \in Values \cup {value_out}
       ELSE /\ fault' = "none"
            /\ ret' = IF HTFind(table, key).found THEN "true" ELSE "false"
            /\ value_out' = IF HTFind(table, key).found
                            THEN HTFind(table, key).value
                            ELSE value_out
    /\ UNCHANGED <<table, expect, lockVars, notHash, ndebug, observe>>

InsertAny == \E key \in Keys, value \in Values : HashInsert(key, value)
RemoveKey == \E key \in Keys : HashRemove(key)
FindAny == \E key \in Keys : HashFind(key)

\* ExtendibleHashTable<int, int>(BucketSize) driven by its three operations
HashInit ==
    /\ HashIdle
    /\ TreeIdle
    /\ LruIdle
    /\ PoolIdle
    /\ replacer_ = LRUKReplacer(0, 1)
    /\ ndebug = FALSE
    /\ fault = "none"
    /\ ret = "void"
    /\ observe = "call"
HashNext == InsertAny \/ RemoveKey \/ FindAny
SpecHash == HashInit /\ [][HashNext]_vars

\* ============================================================ hash table, threads
\* Threads call Insert, Find and the three getters of one table at the same
\* time.  A call is: enter (pc "lock"), take the mutex its first statement
\* names (pc "write" for Insert, "read" for the others), do its reads or its
\* writes, and return, which releases the mutex.

RECURSIVE InsertStages(_, _, _)
RECURSIVE ReInsertStages(_, _)

\* the tables the loop of re-insertions leaves, one per write
ReInsertStages(ht, items) ==
    IF items = << >> THEN << >>
    ELSE InsertStages(ht, Head(items)[1], Head(items)[2]) \o
         ReInsertStages(InernalInsert(ht, Head(items)[1], Head(items)[2]), Tail(items))

\* The tables the body of Insert(key, value) leaves, one per write, in the
\* order of the statements: the first bucket pushed; the pair stored; or else
\* global_depth_++, num_buckets_ <<= 1, the directory doubled, the depth of
\* the full bucket raised, its slots pointed to two new buckets, its pairs
\* inserted again, the new pair inserted.
InsertStages(ht, key, value) ==
    LET h0 == IF ht.dir_ = << >>
              THEN [ht EXCEPT !.dir_ = <<FreshBucket(ht)>>,
                              !.heap = FreshBucket(ht) :> [depth_ |-> 0, list_ |-> << >>]]
              ELSE ht
        first == IF ht.dir_ = << >> THEN <<h0>> ELSE << >>
        index == IndexOf(h0, key)
        b == h0.dir_[index + 1]
    IN  IF BucketInsertOk(h0.heap[b], key)
        THEN first \o <<[h0 EXCEPT !.heap[b] = BucketInsert(@, key, value)]>>
        ELSE
          LET grow == h0.heap[b].depth_ = h0.global_depth_
              g1 == [h0 EXCEPT !.global_depth_ = @ + 1]
              g2 == [g1 EXCEPT !.num_buckets_ = @ * 2]
              h1 == IF grow THEN [g2 EXCEPT !.dir_ = @ \o @] ELSE h0
              h2 == [h1 EXCEPT !.heap[b].depth_ = @ + 1]
              d == h2.heap[b].depth_
              n1 == FreshBucket(h2)
              n2 == n1 + 1
              h3 == [h2 EXCEPT
                       !.dir_ = [i \in DOMAIN @ |->
                                   IF @[i] = b
                                   THEN (IF SlotBit(i - 1, d) = 1 THEN n1 ELSE n2)
                                   ELSE @[i]],
                       !.heap = (n1 :> [depth_ |-> d, list_ |-> << >>]) @@
                                (n2 :> [depth_ |-> d, list_ |-> << >>]) @@ @]
              h4 == ReInsert(h3, h2.heap[b].list_)
          IN  first
              \o (IF grow THEN <<g1, g2, h1>> ELSE << >>)
              \o <<h2, h3>>
              \o ReInsertStages(h3, h2.heap[b].list_)
              \o InsertStages(h4, key, value)

RaceKeys == 0 .. (MaxRaceKey - 1)
Writers == {1}
Readers == 2 .. MaxThreads

Getters == {"GetGlobalDepth", "GetLocalDepth", "GetNumBuckets"}

\* std::unique_lock<std::shared_mutex> guard(mu_) can be taken
UniqueLockable(m) == m.writer = 0 /\ m.readers = {}

\* a shared lock that only waits for other readers
SharedLockableReaders(m) == m.readers = {}

\* std::shared_lock<std::shared_mutex> guard(mu_) can be taken
SharedLockable(m) == m.writer = 0

\* the threads that are inside Insert(key, .) and have not returned
Inserting(key) ==
    {u \in Threads : thread[u].op = "Insert" /\ thread[u].pc # "idle" /\ thread[u].key = key}

\* thread t enters Insert(key, value)
CallInsert(t, key, value) ==
    /\ fault = "none"
    /\ thread[t].pc = "idle"
    /\ thread' = [u \in Threads |->
                    IF u = t
                    THEN [NoThread EXCEPT !.op = "Insert", !.pc = "lock",
                                          !.key = key, !.value = value]
                    ELSE IF thread[u].op = "Find" /\ thread[u].pc # "idle" /\ thread[u].key = key
                         THEN [thread[u] EXCEPT !.may = @ \cup {value}]
                         ELSE thread[u]]
    /\ UNCHANGED <<table, expect, value_out, mu_, latch_, notHash, ndebug, fault, ret, observe>>

\* Insert: std::unique_lock<std::shared_mutex> guard(mu_)
LockInsert(t) ==
    /\ fault = "none"
    /\ thread[t].op = "Insert" /\ thread[t].pc = "lock"
    /\ UniqueLockable(mu_)
    /\ mu_' = [mu_ EXCEPT !.writer = t]
    /\ thread' = [thread EXCEPT ![t].pc = "write",
                                ![t].todo = InsertStages(table, thread[t].key, thread[t].value),
                                ![t].met = SplitLog(table, thread[t].key, thread[t].value) # << >>]
    /\ UNCHANGED <<table, expect, value_out, latch_, notHash, ndebug, fault, ret, observe>>

\* Insert: its next write
WriteInsert(t) ==
    /\ fault = "none"
    /\ thread[t].op = "Insert" /\ thread[t].pc = "write"
    /\ thread[t].todo # << >>
    /\ table' = Head(thread[t].todo)
    /\ thread' = [thread EXCEPT ![t].todo = Tail(@)]
    /\ UNCHANGED <<expect, value_out, mu_, latch_, notHash, ndebug, fault, ret, observe>>

\* Insert returns: the guard releases mu_ and the old bucket is destroyed
ReturnInsert(t) ==
    /\ fault = "none"
    /\ thread[t].op = "Insert" /\ thread[t].pc = "write"
    /\ thread[t].todo = << >>
    /\ table' = HTCollect(table)
    /\ expect' = [expect EXCEPT ![thread[t].key] = thread[t].value]
    /\ mu_' = [mu_ EXCEPT !.writer = IF @ = t THEN 0 ELSE @]
    /\ thread' = [thread EXCEPT ![t] = NoThread]
    /\ UNCHANGED <<value_out, latch_, notHash, ndebug, fault, ret, observe>>

\* thread t enters Find(key, value)
CallFind(t, key) ==
    /\ fault = "none"
    /\ thread[t].pc = "idle"
    /\ thread' = [thread EXCEPT
                    ![t] = [NoThread EXCEPT
                              !.op = "Find", !.pc = "lock", !.key = key,
                              !.known = expect[key] # Absent,
                              !.may = ({expect[key]} \ {Absent}) \cup
                                      {thread[u].value : u \in Inserting(key)},
                              !.met = \E u \in Threads :
                                         /\ thread[u].op = "Insert"
                                         /\ thread[u].pc = "write"
                                         /\ thread[u].met]]
    /\ UNCHANGED <<table, expect, value_out, mu_, latch_, notHash, ndebug, fault, ret, observe>>

\* Find: std::shared_lock<std::shared_mutex> guard(mu_)
LockFind(t) ==
    /\ fault = "none"
    /\ thread[t].op = "Find" /\ thread[t].pc = "lock"
    /\ SharedLockable(mu_)
    /\ mu_' = [mu_ EXCEPT !.readers = @ \cup {t}]
    /\ thread' = [thread EXCEPT ![t].pc = "read"]
    /\ UNCHANGED <<table, expect, value_out, latch_, notHash, ndebug, fault, ret, observe>>

\* dir_[IndexOf(key)] names no slot of the directory, or a slot whose bucket
\* is gone
FindUndefined(ht, key) ==
    \/ IndexOf(ht, key) + 1 \notin DOMAIN ht.dir_
    \/ ht.dir_[IndexOf(ht, key) + 1] \notin DOMAIN ht.heap

\* Find: the look-up and the return, which releases mu_
ReturnFind(t) ==
    /\ fault = "none"
    /\ thread[t].op = "Find" /\ thread[t].pc = "read"
    /\ IF FindUndefined(table, thread[t].key)
       THEN \/ fault' = "crash" /\ UNCHANGED <<thread, mu_>>
            \/ /\ fault' = "none"
               /\ \E r \in {"true", "false"}, v \in Values \cup {Absent} :
                     thread' = [thread EXCEPT ![t].pc = "idle", ![t].key = 0,
                                              ![t].ret = r, ![t].out = v]
               /\ mu_' = [mu_ EXCEPT !.readers = @ \ {t}]
       ELSE /\ fault' = "none"
            /\ thread' = [thread EXCEPT
                            ![t].pc = "idle",
                            ![t].key = 0,
                            ![t].ret = IF HTFind(table, thread[t].key).found
                                       THEN "true" ELSE "false",
                            ![t].out = IF HTFind(table, thread[t].key).found
                                       THEN HTFind(table, thread[t].key).value
                                       ELSE Absent]
            /\ mu_' = [mu_ EXCEPT !.readers = @ \ {t}]
    /\ UNCHANGED <<table, expect, value_out, latch_, notHash, ndebug, ret, observe>>

\* thread t enters GetGlobalDepth(), GetNumBuckets() or GetLocalDepth(key)
\* with key a slot of the directory
CallGetter(t, op, dir_index) ==
    /\ fault = "none"
    /\ thread[t].pc = "idle"
    /\ op \in Getters
    /\ IF op = "GetLocalDepth" THEN dir_index + 1 \in DOMAIN table.dir_ ELSE dir_index = 0
    /\ thread' = [thread EXCEPT
                    ![t] = [NoThread EXCEPT !.op = op, !.pc = "lock", !.key = dir_index]]
    /\ UNCHANGED <<table, expect, value_out, mu_, latch_, notHash, ndebug, fault, ret, observe>>

\* getters: std::scoped_lock<std::mutex> lock(latch_)
LockGetter(t) ==
    /\ fault = "none"
    /\ thread[t].op \in Getters /\ thread[t].pc = "lock"
    /\ latch_ = 0
    /\ latch_' = t
    /\ thread' = [thread EXCEPT ![t].pc = "read"]
    /\ UNCHANGED <<table, expect, value_out, mu_, notHash, ndebug, fault, ret, observe>>

\* some thread is between two writes of Insert
Written == \E u \in Threads : thread[u].op = "Insert" /\ thread[u].pc = "write"

\* getters: the read and the return, which releases latch_.  A read of
\* dir_[dir_index] while Insert rewrites the directory is a data race: the
\* process dies or the call returns some depth.
ReturnGetter(t) ==
    /\ fault = "none"
    /\ thread[t].op \in Getters /\ thread[t].pc = "read"
    /\ \/ /\ fault' = "none"
          /\ latch_' = 0
          /\ \E v \in IF thread[t].op = "GetGlobalDepth" THEN {table.global_depth_}
                      ELSE IF thread[t].op = "GetNumBuckets" THEN {GetNumBuckets(table)}
                      ELSE IF Written \/ thread[t].key + 1 \notin DOMAIN table.dir_
                                      \/ table.dir_[thread[t].key + 1] \notin DOMAIN table.heap
                           THEN 0 .. table.global_depth_
                           ELSE {LocalDepth(table, thread[t].key + 1)} :
                thread' = [thread EXCEPT ![t] = [NoThread EXCEPT !.ret = "int", !.out = v]]
       \/ /\ thread[t].op = "GetLocalDepth" /\ Written
          /\ fault' = "crash"
          /\ UNCHANGED <<thread, latch_>>
    /\ UNCHANGED <<table, expect, value_out, mu_, notHash, ndebug, ret, observe>>

InsertCalled == \E t \in Writers, key \in RaceKeys, value \in Values : CallInsert(t, key, value)
InsertLocked == \E t \in Threads : LockInsert(t)
InsertWrites == \E t \in Threads : WriteInsert(t)
InsertReturns == \E t \in Threads : ReturnInsert(t)
FindCalled == \E t \in Readers, key \in RaceKeys : CallFind(t, key)
FindLocked == \E t \in Threads : LockFind(t)
FindReturns == \E t \in Threads : ReturnFind(t)
GetterCalled ==
    \E t \in Readers, op \in Getters, dir_index \in 0 .. (Pow2(MaxRaceKey) - 1) :
        CallGetter(t, op, dir_index)
GetterLocked == \E t \in Threads : LockGetter(t)
GetterReturns == \E t \in Threads : ReturnGetter(t)

\* MaxThreads threads on one ExtendibleHashTable<int, int>(BucketSize)
ThreadsNext ==
    \/ InsertCalled \/ InsertLocked \/ InsertWrites \/ InsertReturns
    \/ FindCalled \/ FindLocked \/ FindReturns
    \/ GetterCalled \/ GetterLocked \/ GetterReturns
SpecThreads == HashInit /\ [][ThreadsNext]_vars

\* ============================================================ B+ tree alone
\* Insert(key, value) called by a client of the tree
TreeInsert(key, value) ==
    /\ fault = "none"
    /\ \E starve \in 0 .. MaxCalls : \E o \in Insert(tree, key, value, starve) :
          /\ tree' = [o.tree EXCEPT !.pool.calls = 0, !.pool.starve = 0]
          /\ fault' = Stopped(o.st)
          /\ ret' = IF o.st # "ok" THEN o.st ELSE IF o.ret THEN "true" ELSE "false"
    /\ inserted' = IF inserted[key] = Absent THEN [inserted EXCEPT ![key] = value]
                   ELSE inserted
    /\ called' = <<"Insert", key, value>>
    /\ UNCHANGED <<result, notTree, ndebug, observe>>

\* GetValue(key, &result) called by a client of the tree with an empty vector
TreeGetValue(key) ==
    /\ fault = "none"
    /\ \E starve \in 0 .. MaxCalls :
          LET o == GetValue(tree, key, starve)
          IN  /\ tree' = [o.tree EXCEPT !.pool.calls = 0, !.pool.starve = 0]
              /\ fault' = Stopped(o.st)
              /\ ret' = IF o.st # "ok" THEN o.st ELSE IF o.ret THEN "true" ELSE "false"
              /\ result' = o.result
    /\ called' = <<"GetValue", key, 0>>
    /\ UNCHANGED <<inserted, notTree, ndebug, observe>>

InsertKey == \E key \in Keys, value \in Values : TreeInsert(key, value)
GetKey == \E key \in Keys : TreeGetValue(key)

\* BPlusTree(name, buffer_pool_manager, comparator, leaf_max_size,
\* internal_max_size) driven by Insert and GetValue
TreeInit ==
    /\ \E leaf_max_size, internal_max_size \in 2 .. MaxTreeSize :
          tree = BPlusTree(leaf_max_size, internal_max_size)
    /\ result = << >>
    /\ inserted = NoExpect
    /\ called = NoCall
    /\ HashIdle
    /\ LruIdle
    /\ PoolIdle
    /\ replacer_ = LRUKReplacer(0, 1)
    /\ ndebug = FALSE
    /\ fault = "none"
    /\ ret = "void"
    /\ observe = "call"
TreeNext == InsertKey \/ GetKey
SpecTree == TreeInit /\ [][TreeNext]_vars

\* ============================================================ leaf split alone
\* InsertLeafOverflow applied to a full leaf.  No Insert from the
\* constructor builds one, so the leaf is drawn: page 0, pinned and
\* write-latched by the caller as Insert does, holding max_size pairs in key
\* order, with no right sibling or with page 2 as its right sibling.

\* the members of a set of keys in ascending order
Sorted(S) ==
    CHOOSE q \in [1 .. Cardinality(S) -> S] :
        \A i, j \in 1 .. Cardinality(S) : i < j => q[i] < q[j]

\* a leaf page of max_size pairs
FullLeaf(max_size, S, v, next) ==
    [LeafInit(ZeroPage, 0, INVALID_PAGE_ID, max_size) EXCEPT
        !.size_ = max_size,
        !.next_page_id_ = next,
        !.array_ = [i \in 1 .. MaxSlots |->
                      IF i <= max_size THEN <<Sorted(S)[i], v[Sorted(S)[i]]>>
                      ELSE <<0, 0>>]]

\* *new_key = page->KeyAt(page->GetMaxSize() / 2 - 1)
NewKey(b, cur_page_id) ==
    SlotAt(b.store[cur_page_id], b.store[cur_page_id].max_size_ \div 2 - 1)[1]

\* InsertLeafOverflow(page 0, key, value, ...) called on the drawn leaf; the
\* pool refuses the new page when starve is 1
SplitLeaf(key, value, starve) ==
    /\ fault = "none"
    /\ called = NoCall
    /\ LeafFind(tree.pool.store[0], key) < 0
    /\ tree' = [tree EXCEPT
                  !.pool = [InsertLeafOverflow([@ EXCEPT !.calls = 0, !.starve = starve],
                                               0, key, value)
                               EXCEPT !.calls = 0, !.starve = 0]]
    /\ fault' = "crash"
    /\ ret' = "crash"
    /\ called' = <<"InsertLeafOverflow", key, value>>
    /\ UNCHANGED <<result, inserted, notTree, ndebug, observe>>

SplitAny == \E key \in Keys, value \in Values, starve \in 0 .. 1 : SplitLeaf(key, value, starve)

SplitInit ==
    /\ \E max_size \in 2 .. MaxTreeSize, S \in SUBSET Keys, next \in {INVALID_PAGE_ID, 2} :
          /\ Cardinality(S) = max_size
          /\ \E v \in [S -> Values] :
                tree = [BPlusTree(max_size, max_size) EXCEPT
                           !.pool.store[0] = FullLeaf(max_size, S, v, next),
                           !.pool.pin[0] = 1,
                           !.pool.latch[0] = "W",
                           !.pool.next_page_id_ = 1]
    /\ result = << >>
    /\ inserted = NoExpect
    /\ called = NoCall
    /\ HashIdle
    /\ LruIdle
    /\ PoolIdle
    /\ replacer_ = LRUKReplacer(0, 1)
    /\ ndebug = FALSE
    /\ fault = "none"
    /\ ret = "void"
    /\ observe = "call"
SplitNext == SplitAny
SpecSplit == SplitInit /\ [][SplitNext]_vars

\* ============================================================ internal page alone
\* BPlusTreeInternalPage::Find applied to a drawn internal page: page 0,
\* holding a leftmost child and up to MaxSlots - 1 separators in key order,
\* with any key in slot 0.

\* an internal page whose separators are the keys of S
InternalPage(key0, S) ==
    [InternalInit(ZeroPage, 0, INVALID_PAGE_ID, MaxSlots) EXCEPT
        !.size_ = Cardinality(S) + 1,
        !.array_ = [i \in 1 .. MaxSlots |->
                      IF i = 1 THEN <<key0, 1>>
                      ELSE IF i <= Cardinality(S) + 1 THEN <<Sorted(S)[i - 1], 1>>
                      ELSE <<0, 0>>]]

\* Find(key) called on the drawn page; the index it returns is the third
\* field of called
FindSlot(key) ==
    /\ fault = "none"
    /\ called' = <<"Find", key, InternalFind(tree.pool.store[0], key)>>
    /\ UNCHANGED <<tree, result, inserted, notTree, ndebug, fault, ret, observe>>

FindAnySlot == \E key \in Keys : FindSlot(key)

FindInit ==
    /\ \E key0 \in Keys, S \in SUBSET Keys :
          /\ Cardinality(S) < MaxSlots
          /\ tree = [BPlusTree(MaxSlots, MaxSlots) EXCEPT
                        !.pool.store[0] = InternalPage(key0, S)]
    /\ result = << >>
    /\ inserted = NoExpect
    /\ called = NoCall
    /\ HashIdle
    /\ LruIdle
    /\ PoolIdle
    /\ replacer_ = LRUKReplacer(0, 1)
    /\ ndebug = FALSE
    /\ fault = "none"
    /\ ret = "void"
    /\ observe = "call"
FindNext == FindAnySlot
SpecFind == FindInit /\ [][FindNext]_vars

\* ============================================================ B+ tree, grown
\* Insert and GetValue applied to a tree that holds keys.  No Insert from
\* the constructor builds one, so the tree is drawn: either a root leaf on
\* page 0, or an internal root on page 0 with one separator over the leaves
\* of pages 1 and 2, the left leaf holding keys up to the separator and the
\* right leaf the keys above it, as Find and InsertLeafOverflow have it.

\* a leaf page holding the keys of S, each with value v[key]
LeafOf(page_id, parent_id, max_size, S, v, next) ==
    [LeafInit(ZeroPage, page_id, parent_id, max_size) EXCEPT
        !.size_ = Cardinality(S),
        !.next_page_id_ = next,
        !.array_ = [i \in 1 .. MaxSlots |->
                      IF i <= Cardinality(S) THEN <<Sorted(S)[i], v[Sorted(S)[i]]>>
                      ELSE <<0, 0>>]]

\* a tree whose root is the leaf of page 0
RootLeaf(max_size, S, v) ==
    [BPlusTree(max_size, max_size) EXCEPT
        !.root_page_id_ = 0,
        !.pool.store[0] = LeafOf(0, INVALID_PAGE_ID, max_size, S, v, INVALID_PAGE_ID),
        !.pool.next_page_id_ = 1]

\* a tree whose root is the internal page of page 0, with separator m
RootOverLeaves(max_size, m, S1, S2) ==
    [BPlusTree(max_size, max_size) EXCEPT
        !.root_page_id_ = 0,
        !.pool.store[0] =
            [InternalInit(ZeroPage, 0, INVALID_PAGE_ID, max_size) EXCEPT
                !.size_ = 2,
                !.array_ = [i \in 1 .. MaxSlots |->
                              IF i = 1 THEN <<0, 1>>
                              ELSE IF i = 2 THEN <<m, 2>>
                              ELSE <<0, 0>>]],
        !.pool.store[1] = LeafOf(1, 0, max_size, S1, [k \in S1 |-> 0], 2),
        !.pool.store[2] = LeafOf(2, 0, max_size, S2, [k \in S2 |-> 0], INVALID_PAGE_ID),
        !.pool.next_page_id_ = 3]

GrownInit ==
    /\ \E max_size \in 2 .. MaxTreeSize :
          \/ \E S \in SUBSET Keys :
                /\ S # {}
                /\ Cardinality(S) <= max_size
                /\ \E v \in [S -> Values] : tree = RootLeaf(max_size, S, v)
          \/ \E m \in Keys, S1, S2 \in SUBSET Keys :
                /\ S1 # {} /\ S2 # {}
                /\ Cardinality(S1) <= max_size /\ Cardinality(S2) <= max_size
                /\ m \in S1
                /\ \A k \in S1 : k <= m
                /\ \A k \in S2 : k > m
                /\ tree = RootOverLeaves(max_size, m, S1, S2)
    /\ result = << >>
    /\ inserted = NoExpect
    /\ called = NoCall
    /\ HashIdle
    /\ LruIdle
    /\ PoolIdle
    /\ replacer_ = LRUKReplacer(0, 1)
    /\ ndebug = FALSE
    /\ fault = "none"
    /\ ret = "void"
    /\ observe = "call"

\* Insert(key, value) called by a client of the drawn tree
GrownInsert(key, value) ==
    /\ fault = "none"
    /\ \E starve \in 0 .. MaxCalls : \E o \in Insert(tree, key, value, starve) :
          /\ tree' = [o.tree EXCEPT !.pool.calls = 0, !.pool.starve = 0]
          /\ fault' = Stopped(o.st)
          /\ ret' = IF o.st # "ok" THEN o.st ELSE IF o.ret THEN "true" ELSE "false"
    /\ called' = <<"Insert", key, value>>
    /\ UNCHANGED <<result, inserted, notTree, ndebug, observe>>

GrownInsertKey == \E key \in Keys, value \in Values : GrownInsert(key, value)
GrownNext == GrownInsertKey \/ GetKey
SpecGrown == GrownInit /\ [][GrownNext]_vars

\* ============================================================ B+ tree, threads
\* Threads call Insert and GetValue of one tree at the same time.  Insert is
\* taken in two steps, up to the write latch on the frame FetchPage(
\* root_page_id_) gave it, and from there to its return.  GetValue is one
\* step: as long as root_page_id_ is INVALID_PAGE_ID it returns from
\* IsEmpty() without a pin or a latch.
notTreeThreads == <<poolVars, replacer_, lruVars, table, expect, value_out, mu_, latch_>>

\* the threads inside Insert(key, .)
TreeInserting(key) ==
    {u \in Threads : thread[u].op = "Insert" /\ thread[u].pc # "idle" /\ thread[u].key = key}

\* thread t enters Insert(key, value)
EnterInsert(t, key, value) ==
    /\ fault = "none"
    /\ thread[t].pc = "idle"
    /\ thread' = [u \in Threads |->
                    IF u = t
                    THEN [NoThread EXCEPT !.op = "Insert", !.pc = "fetch",
                                          !.key = key, !.value = value]
                    ELSE thread[u]]
    /\ called' = <<"Insert", key, value>>
    /\ UNCHANGED <<tree, result, inserted, notTreeThreads, ndebug, fault, ret, observe>>

\* Insert: FetchPage(root_page_id_), return false on nullptr, else WLatch()
FetchRoot(t, starve) ==
    /\ fault = "none"
    /\ thread[t].op = "Insert" /\ thread[t].pc = "fetch"
    /\ IF starve = 1
       THEN /\ thread' = [thread EXCEPT ![t] = [NoThread EXCEPT !.ret = "false"]]
            /\ inserted' = IF inserted[thread[t].key] = Absent
                           THEN [inserted EXCEPT ![thread[t].key] = thread[t].value]
                           ELSE inserted
            /\ tree' = tree
       ELSE /\ tree.pool.latch[tree.root_page_id_] = "none"
            /\ tree' = [tree EXCEPT
                          !.pool = PoolLatch(PoolFetch(@, tree.root_page_id_),
                                             tree.root_page_id_, "W")]
            /\ thread' = [thread EXCEPT ![t].pc = "loop"]
            /\ inserted' = inserted
    /\ UNCHANGED <<result, called, notTreeThreads, ndebug, fault, ret, observe>>

\* Insert: the loop, to the return
LeaveInsert(t) ==
    /\ fault = "none"
    /\ thread[t].op = "Insert" /\ thread[t].pc = "loop"
    /\ \E o \in InsertLoop(tree, [tree.pool EXCEPT !.calls = 0, !.starve = 0],
                           tree.root_page_id_, << >>, thread[t].key, thread[t].value) :
          /\ tree' = [o.tree EXCEPT !.pool.calls = 0, !.pool.starve = 0]
          /\ fault' = Stopped(o.st)
          /\ thread' = [thread EXCEPT
                          ![t] = [NoThread EXCEPT
                                    !.ret = IF o.st # "ok" THEN o.st
                                            ELSE IF o.ret THEN "true" ELSE "false"]]
    /\ inserted' = IF inserted[thread[t].key] = Absent
                   THEN [inserted EXCEPT ![thread[t].key] = thread[t].value]
                   ELSE inserted
    /\ UNCHANGED <<result, called, notTreeThreads, ndebug, ret, observe>>

\* thread t enters GetValue(key, &result): known tells whether an Insert of
\* the key has returned, may holds the values of the Inserts of the key that
\* have returned or are under way
EnterGetValue(t, key) ==
    /\ fault = "none"
    /\ thread[t].pc = "idle"
    /\ thread' = [thread EXCEPT
                    ![t] = [NoThread EXCEPT
                              !.op = "GetValue", !.pc = "get", !.key = key,
                              !.known = inserted[key] # Absent,
                              !.may = ({inserted[key]} \ {Absent}) \cup
                                      {thread[u].value : u \in TreeInserting(key)},
                              !.met = TreeInserting(key) # {}]]
    /\ called' = <<"GetValue", key, 0>>
    /\ UNCHANGED <<tree, result, inserted, notTreeThreads, ndebug, fault, ret, observe>>

\* GetValue, to its return
LeaveGetValue(t) ==
    /\ fault = "none"
    /\ thread[t].op = "GetValue" /\ thread[t].pc = "get"
    /\ LET o == GetValue(tree, thread[t].key, 0)
       IN  /\ tree' = [o.tree EXCEPT !.pool.calls = 0, !.pool.starve = 0]
           /\ fault' = Stopped(o.st)
           /\ thread' = [thread EXCEPT
                           ![t].pc = "idle",
                           ![t].key = 0,
                           ![t].ret = IF o.st # "ok" THEN o.st
                                      ELSE IF o.ret THEN "true" ELSE "false",
                           ![t].out = IF o.st = "ok" /\ o.ret THEN o.result[1] ELSE Absent]
    /\ UNCHANGED <<result, inserted, called, notTreeThreads, ndebug, ret, observe>>

InsertEntered ==
    \E t \in Threads, key \in RaceKeys, value \in Values : EnterInsert(t, key, value)
RootFetched == \E t \in Threads, starve \in 0 .. 1 : FetchRoot(t, starve)
InsertLeft == \E t \in Threads : LeaveInsert(t)
GetValueEntered == \E t \in Threads, key \in RaceKeys : EnterGetValue(t, key)
GetValueLeft == \E t \in Threads : LeaveGetValue(t)

\* MaxThreads threads on one BPlusTree
TreeThreadsNext ==
    InsertEntered \/ RootFetched \/ InsertLeft \/ GetValueEntered \/ GetValueLeft
SpecTreeThreads == TreeInit /\ [][TreeThreadsNext]_vars

\* ============================================================ buffer pool claims
ResidentNow(p) == Resident(page_table_, p)
FrameNow(p) == FrameOf(page_table_, p)
Returned == ret' \notin {"crash", "hang"}
PoolState == <<pages_, free_list_, page_table_, replacer_, next_page_id_, disk>>

\* every frame holds a resident page that is pinned
AllPinned ==
    \A f \in Frames :
        /\ pages_[f].pin_count_ > 0
        /\ ResidentNow(pages_[f].page_id_)
        /\ FrameNow(pages_[f].page_id_) = f

\* C1: no call gives a frame whose pin_count is positive to another page
\* (a pinned frame is never the victim of new_page or fetch_page).
C1_PinnedFrameNeverVictim ==
    [][\A f \in Frames :
          pages_[f].pin_count_ > 0 => pages_'[f].page_id_ = pages_[f].page_id_]_vars

C4_NullIffAllPinned ==
    [][(/\ ~HTFindUndefined(page_table_)
        /\ \/ NewPgImp(FALSE)
           \/ \E p \in AllPages : ~ResidentNow(p) /\ FetchPgImp(p)
        /\ Returned)
       => /\ (ret' = "null") <=> AllPinned
          /\ (ret' = "page") <=> ~AllPinned
          /\ (ret' = "null") => UNCHANGED PoolState]_vars

\* C5: unpin_page returns false and changes nothing when the page is not
\* resident or its pin count is 0; otherwise it returns true, the pin count
\* drops by one, and at 0 the replacer holds the frame as evictable.
C5_UnpinContract ==
    [][\A p \in AllPages, d \in BOOLEAN :
          (~HTFindUndefined(page_table_) /\ UnpinPgImp(p, d)) =>
             IF ~ResidentNow(p) \/ pages_[FrameNow(p)].pin_count_ = 0
             THEN ret' = "false" /\ UNCHANGED PoolState
             ELSE /\ ret' = "true"
                  /\ pages_'[FrameNow(p)].pin_count_ = pages_[FrameNow(p)].pin_count_ - 1
                  /\ pages_'[FrameNow(p)].pin_count_ = 0 =>
                        /\ ~replacer_'.ub
                        /\ FrameNow(p) \in Evictable(replacer_')]_vars

C7_DeleteContract ==
    [][\A p \in AllPages :
          (~HTFindUndefined(page_table_) /\ DeletePgImp(p)) =>
             IF ~ResidentNow(p)
             THEN ret' = "true" /\ UNCHANGED PoolState
             ELSE IF pages_[FrameNow(p)].pin_count_ > 0
             THEN ret' = "false" /\ UNCHANGED PoolState
             ELSE /\ ret' = "true"
                  /\ ~Resident(page_table_', p)
                  /\ \E i \in DOMAIN free_list_' : free_list_'[i] = FrameNow(p)
                  /\ pages_'[FrameNow(p)] = EmptyPage
                  /\ ~replacer_'.ub
                  /\ FrameNow(p) \notin DOMAIN replacer_'.map_]_vars

\* C8: every pair (p, f) of the page table has p # INVALID_PAGE_ID and
\* pages_[f].page_id_ = p, and no frame is the value of two page ids.
C8_PageTableConsistent ==
    fault = "none" =>
        \A x \in HTPairs(page_table_) :
            /\ x[1] # INVALID_PAGE_ID
            /\ pages_[x[2]].page_id_ = x[1]
            /\ \A y \in HTPairs(page_table_) : y[2] = x[2] => y = x

\* C9: fetch_page(INVALID) returns null and flush_page(INVALID) returns false,
\* and neither takes a frame, touches the disk or changes the page table.
C9_InvalidArgument ==
    [][/\ (~HTFindUndefined(page_table_) /\ FetchPgImp(INVALID_PAGE_ID) /\ Returned)
          => (ret' = "null" /\ UNCHANGED PoolState)
       /\ FlushPgImp(INVALID_PAGE_ID)
          => (ret' = "false" /\ UNCHANGED PoolState)]_vars

\* ============================================================ replacer claims
\* the timestamp of the k-th most recent access of a tracked frame
KthRecent(f) == hist[f][Len(hist[f]) - replacer_.k_ + 1]

\* the backward K-distance of f is at least that of g: infinite when f has
\* fewer than k accesses, else now - KthRecent(f) against now - KthRecent(g)
AtLeastAsFar(f, g) ==
    \/ Len(hist[f]) < replacer_.k_
    \/ /\ Len(hist[g]) >= replacer_.k_
       /\ KthRecent(f) <= KthRecent(g)

\* C10: after record_access calls on evictable frames, evict() removes and
\* returns a tracked frame whose backward K-distance is maximal among the
\* tracked frames (so repeated calls go in decreasing backward K-distance),
\* and returns false only when no frame is tracked.
C10_EvictsMaxKDistance ==
    [][EvictCall =>
          IF Tracked = {}
          THEN ret' = "false"
          ELSE /\ ret' = "true"
               /\ \E f \in Tracked :
                     /\ DOMAIN replacer_'.map_ = Tracked \ {f}
                     /\ \A g \in Tracked : AtLeastAsFar(f, g)]_vars

\* the frame an evict step returned
Evicted == Tracked \ DOMAIN replacer_'.map_

\* C11: among the tracked frames with fewer than k accesses, evict() returns
\* the one whose first access is the earliest, also when that frame was
\* accessed again later.
C11_HistoryByFirstAccess ==
    [][EvictCall =>
          LET young == {f \in Tracked : Len(hist[f]) < replacer_.k_}
          IN  young # {} =>
                 \E f \in young :
                    /\ Evicted = {f}
                    /\ \A g \in young : hist[f][1] <= hist[g][1]]_vars

\* C12: after any record_access, set_evictable, evict and remove calls,
\* size() is the number of frames that are tracked and evictable (the
\* entries of history_list_ and buffered_list_).
C12_SizeCountsEvictable ==
    (fault = "none" /\ ~replacer_.ub) =>
        Size(replacer_) = Cardinality(Evictable(replacer_))

\* C13: evict() does not return a frame whose last set_evictable call, since
\* the replacer tracks it, had the argument false.
C13_NonEvictableKept ==
    [][(EvictCall /\ ~replacer_.ub) =>
          \A f \in Evicted : asked[f] # "false"]_vars

\* C14: remove(f) of a tracked evictable frame lowers size() by one and
\* leaves f unknown to the replacer (not evictable, and a new frame for the
\* next record_access); remove of an untracked frame changes nothing.
C14_RemovePurges ==
    [][\A f \in 0 .. (replacer_.replacer_size_ - 1) :
          (RemoveCall(f) /\ ~replacer_.ub /\ fault' = "none") =>
             IF f \in Evictable(replacer_)
             THEN /\ Size(replacer_') = Size(replacer_) - 1
                  /\ f \notin Evictable(replacer_')
                  /\ f \notin DOMAIN replacer_'.map_
             ELSE f \notin Tracked => replacer_' = replacer_]_vars

\* ============================================================ hash table claims
\* what Find answers about a key: the value, or Absent
Found(ht, key) == IF HTFind(ht, key).found THEN HTFind(ht, key).value ELSE Absent

\* C15: the table behaves as a map: a find(k) that returns answers the value
\* of the last insert(k, v) not followed by a remove(k), and not-found when
\* there is none, whatever splits the inserts went through.
C15_FindsLastInsert ==
    [][\A key \in Keys :
          HashFind(key) =>
              /\ fault' = "none"
              /\ ret' = (IF expect[key] = Absent THEN "false" ELSE "true")
              /\ expect[key] # Absent => value_out' = expect[key]]_vars

\* the same once the directory exists (some insert has happened)
C15_MapOnceInserted ==
    table.dir_ # << >> => \A key \in Keys : Found(table, key) = expect[key]

\* C16: on a table nothing was inserted into, the directory has one slot with
\* an empty bucket: find returns not-found and remove returns false, and
\* neither reads the directory out of range.
C16_FreshTableAnswers ==
    [][\A key \in Keys :
          /\ (table.dir_ = << >> /\ HashFind(key)) =>
                 fault' = "none" /\ ret' = "false"
          /\ (table.dir_ = << >> /\ HashRemove(key)) =>
                 fault' = "none" /\ ret' = "false"]_vars

\* the part of C16 the code keeps: remove on a fresh table returns false
C16_FreshRemoveFalse ==
    [][\A key \in Keys :
          (table.dir_ = << >> /\ HashRemove(key)) =>
              fault' = "none" /\ ret' = "false" /\ table' = table]_vars

\* C17: after every insert each local depth is at most the global depth, two
\* slots reference the same bucket exactly when their numbers agree on the low
\* local-depth bits, every stored key hashes to those low bits of the slots
\* that reference its bucket, and no bucket holds more than bucket_size
\* entries.
C17_DirectoryInvariant ==
    /\ table.dir_ # << >> => Len(table.dir_) = Pow2(table.global_depth_)
    /\ \A i \in DOMAIN table.dir_ :
          /\ LocalDepth(table, i) <= table.global_depth_
          /\ Len(table.heap[table.dir_[i]].list_) <= BucketSize
          /\ \A j \in DOMAIN table.dir_ :
                (table.dir_[i] = table.dir_[j]) <=>
                    ((i - 1) % Pow2(LocalDepth(table, i)) =
                     (j - 1) % Pow2(LocalDepth(table, i)))
          /\ \A n \in DOMAIN table.heap[table.dir_[i]].list_ :
                table.heap[table.dir_[i]].list_[n][1] % Pow2(LocalDepth(table, i)) =
                    (i - 1) % Pow2(LocalDepth(table, i))

\* a directory of four slots or more where two slots share a bucket and
\* another bucket was split down to the global depth
C17_Witness ==
    /\ table.global_depth_ >= 2
    /\ \E i, j \in DOMAIN table.dir_ : i # j /\ table.dir_[i] = table.dir_[j]
    /\ \E i \in DOMAIN table.dir_ :
          /\ LocalDepth(table, i) = table.global_depth_
          /\ table.heap[table.dir_[i]].list_ # << >>

\* ============================================================ B+ tree claims
\* what GetValue answers about a key when the pool refuses nothing: the
\* value, or Absent
Lookup(t, key) ==
    IF GetValue(t, key, 0).ret THEN GetValue(t, key, 0).result[1] ELSE Absent

\* the pins and latches the thread holds between two calls
Unheld(t) ==
    \A p \in TreePageIds : t.pool.pin[p] = 0 /\ t.pool.latch[p] = "none"

\* C18: Insert(k, v) of a key the tree does not hold returns true, on an empty
\* tree too, where it starts a tree and sets the root page id; GetValue(k)
\* then finds v.
C18_InsertThenGet ==
    [][\A key \in Keys, value \in Values :
          (TreeInsert(key, value) /\ Lookup(tree, key) = Absent) =>
              /\ ret' = "true"
              /\ tree'.root_page_id_ # INVALID_PAGE_ID
              /\ Lookup(tree', key) = value]_vars

C19_SecondInsertHarmless ==
    [][\A key \in Keys, value \in Values :
          (TreeInsert(key, value) /\ inserted[key] # Absent) =>
              /\ ret' = "false"
              /\ tree'.pool.store = tree.pool.store
              /\ Unheld(tree')]_vars

RECURSIVE Leftmost(_, _, _)
RECURSIVE LeafChain(_, _, _)
RECURSIVE Ascending(_)

\* the leaf reached from page_id through slot 0 of every internal page
Leftmost(t, page_id, fuel) ==
    IF fuel > 0 /\ t.pool.store[page_id].page_type_ = "INTERNAL_PAGE"
    THEN Leftmost(t, PageOf(SlotAt(t.pool.store[page_id], 0)[2]), fuel - 1)
    ELSE page_id

\* the keys read from the leaf page_id on, following next_page_id_
LeafChain(t, page_id, fuel) ==
    IF fuel = 0 \/ page_id = INVALID_PAGE_ID
       \/ t.pool.store[page_id].page_type_ # "LEAF_PAGE"
    THEN << >>
    ELSE [i \in 1 .. t.pool.store[page_id].size_ |-> t.pool.store[page_id].array_[i][1]]
         \o LeafChain(t, PageOf(t.pool.store[page_id].next_page_id_), fuel - 1)

\* the keys of the tree in the order a scan of the leaves meets them
ScanKeys(t) == LeafChain(t, Leftmost(t, t.root_page_id_, MaxTreePages), MaxTreePages)

Ascending(keys) ==
    Len(keys) < 2 \/ (keys[1] < keys[2] /\ Ascending(Tail(keys)))

\* the keys of slots 1 .. size-1 of an internal page
Separators(pg) == [i \in 1 .. (pg.size_ - 1) |-> pg.array_[i + 1][1]]

\* the keys of the leaf under slot i of an internal page lie from the
\* separator of slot i (none for slot 0) up to the separator of slot i + 1
\* (none for the last slot)
LeafInRange(t, pg, i) ==
    LET child == t.pool.store[PageOf(SlotAt(pg, i)[2])]
    IN  child.page_type_ = "LEAF_PAGE" =>
            \A n \in 1 .. child.size_ :
                /\ i >= 1 => SlotAt(pg, i)[1] <= child.array_[n][1]
                /\ i + 1 < pg.size_ => child.array_[n][1] < SlotAt(pg, i + 1)[1]

\* C20: after Insert calls with distinct keys the leaves, followed through
\* next_page_id_ from the leftmost one, yield all keys inserted in strictly
\* increasing order, every internal page has strictly increasing keys from
\* slot 1 on, and every leaf's keys lie in the range its parent's separators
\* give.
C20_KeysInOrder ==
    /\ Ascending(ScanKeys(tree))
    /\ {ScanKeys(tree)[i] : i \in DOMAIN ScanKeys(tree)} =
           {key \in Keys : inserted[key] # Absent}
    /\ \A p \in TreePageIds :
          tree.pool.store[p].page_type_ = "INTERNAL_PAGE" =>
              /\ Ascending(Separators(tree.pool.store[p]))
              /\ \A i \in 0 .. (tree.pool.store[p].size_ - 1) :
                    LeafInRange(tree, tree.pool.store[p], i)

\* ============================================================ replacer claims, crowded
\* C22: RecordAccess(f) of a frame the replacer does not track leaves f
\* tracked in history_list_ with one access and removes no other frame, also
\* when Size() already equals replacer_size_.
C22_NewFrameTracked ==
    [][\A f \in Crowd :
          (RecordAccessCall(f) /\ f \notin Tracked /\ ~replacer_.ub) =>
              /\ fault' = "none"
              /\ f \in DOMAIN replacer_'.map_
              /\ replacer_'.map_[f].in = "history"
              /\ replacer_'.map_[f].times_hit_ = 1
              /\ Tracked \subseteq DOMAIN replacer_'.map_]_vars

\* the same below capacity: the part of C22 the code keeps
C22_NewFrameTrackedBelowCapacity ==
    [][\A f \in Crowd :
          (RecordAccessCall(f) /\ f \notin Tracked /\ ~replacer_.ub
             /\ Size(replacer_) # replacer_.replacer_size_) =>
              /\ fault' = "none"
              /\ f \in DOMAIN replacer_'.map_
              /\ replacer_'.map_[f].in = "history"
              /\ replacer_'.map_[f].times_hit_ = 1
              /\ Tracked \subseteq DOMAIN replacer_'.map_]_vars

\* C23: every call of the replacer returns: none waits for ever for
\* common_latch_ or latch_.
C23_CallsReturn == fault # "hang"

\* frames a client holds to be evictable: accessed since the replacer began
\* to track them and not set non-evictable by their last SetEvictable call
AskedEvictable ==
    {f \in DOMAIN hist : hist[f] # << >> /\ asked[f] # "false"}

\* C24: Evict returns a frame with fewer than k_ accesses whenever an
\* evictable frame has fewer than k_ accesses, returns false exactly when no
\* frame is evictable, and forgets the accesses of the frame it returns.
C24_InfiniteDistanceWins ==
    [][(EvictCall /\ ~replacer_.ub) =>
          LET young == {f \in AskedEvictable : Len(hist[f]) < replacer_.k_}
          IN  /\ fault' = "none"
              /\ (ret' = "false") <=> (AskedEvictable = {})
              /\ ret' = "true" =>
                    \E f \in AskedEvictable :
                        /\ Evicted = {f}
                        /\ young # {} => f \in young
                        /\ hist'[f] = << >>]_vars

\* every tracked entry is in the container its evitable_ flag names and no
\* entry was erased by Remove
FlagsInStep ==
    \A f \in Tracked :
        /\ replacer_.map_[f].in # "freed"
        /\ replacer_.map_[f].evitable_ <=> replacer_.map_[f].in # "none"

\* the part of C24 the code keeps: the same while the flags are in step
C24_WhileFlagsInStep ==
    [][(EvictCall /\ ~replacer_.ub /\ FlagsInStep) =>
          LET young == {f \in AskedEvictable : Len(hist[f]) < replacer_.k_}
          IN  /\ fault' = "none"
              /\ (ret' = "false") <=> (AskedEvictable = {})
              /\ ret' = "true" =>
                    \E f \in AskedEvictable :
                        /\ Evicted = {f}
                        /\ young # {} => f \in young
                        /\ hist'[f] = << >>]_vars

\* ============================================================ pool and replacer
\* frames that hold a resident page nobody pins
Unpinned ==
    {f \in Frames : /\ pages_[f].pin_count_ = 0
                    /\ ResidentNow(pages_[f].page_id_)
                    /\ FrameNow(pages_[f].page_id_) = f}

\* C25: after every operation of the pool the frames the replacer holds as
\* evictable are the frames with a resident page of pin count 0, and Size()
\* is their number.
C25_ReplacerMirrorsPins ==
    (fault = "none" /\ ~replacer_.ub) =>
        /\ Evictable(replacer_) = Unpinned
        /\ Size(replacer_) = Cardinality(Unpinned)

\* ------------------------------------------------------------ C26
\* what C26 says of one split
GrowsByRule(e) ==
    /\ e.L <= e.G
    /\ e.L = e.G => /\ e.G1 = e.G + 1
                    /\ Len(e.dir1) = 2 * Len(e.dir)
                    /\ \A i \in DOMAIN e.dir : e.dir1[i + Len(e.dir)] = e.dir1[i]
    /\ e.L < e.G => e.G1 = e.G /\ e.dir1 = e.dir

\* what C26 says of every step of the table
GrowthSteps ==
    /\ table'.global_depth_ >= table.global_depth_
    /\ \A key \in Keys, value \in Values :
          HashInsert(key, value) =>
              /\ \A n \in DOMAIN SplitLog(table, key, value) :
                    GrowsByRule(SplitLog(table, key, value)[n])
              /\ (table'.global_depth_ > table.global_depth_) =>
                    \E n \in DOMAIN SplitLog(table, key, value) :
                       SplitLog(table, key, value)[n].L = SplitLog(table, key, value)[n].G
              /\ SplitLog(table, key, value) = << >> =>
                    /\ table'.global_depth_ = table.global_depth_
                    /\ table.dir_ # << >> => Len(table'.dir_) = Len(table.dir_)

\* C26: in every reachable state the directory has exactly 2^G slots; an
\* insert increases G, by doubling the directory so that slot i + 2^G
\* references the bucket of slot i, only when the overflowing bucket has
\* L = G, leaves G and the directory size unchanged when L < G, and G never
\* decreases.
C26_DirectoryGrowth ==
    /\ [](Len(table.dir_) = Pow2(table.global_depth_))
    /\ [][GrowthSteps]_vars

\* the same once the directory exists
C26_GrowthOnceInserted ==
    /\ [](table.dir_ # << >> => Len(table.dir_) = Pow2(table.global_depth_))
    /\ [][GrowthSteps]_vars

\* ------------------------------------------------------------ C27
\* the buckets the directory references
Referenced(ht) == {ht.dir_[i] : i \in DOMAIN ht.dir_}

\* C27: after any sequence of inserts GetNumBuckets() is the number of
\* distinct buckets the directory references.
C27_CountsBuckets ==
    table.dir_ # << >> => GetNumBuckets(table) = Cardinality(Referenced(table))

\* the count is right as long as every split so far doubled the directory
\* of a table of at most two slots
C27_CountsUpToTwoBuckets ==
    (table.dir_ # << >> /\ table.global_depth_ <= 1) =>
        GetNumBuckets(table) = Cardinality(Referenced(table))

\* ------------------------------------------------------------ C28
\* thread t holds mu_ shared and has not looked up yet
Reading(t) == thread[t].op = "Find" /\ thread[t].pc = "read"

\* thread t has returned from a Find
Answered(t) == thread[t].op = "Find" /\ thread[t].pc = "idle"

\* C28: a find(k) concurrent with an insert that splits returns found, with
\* the value of an insert of k that ended before the find began or that ran
\* beside it, for every key inserted before the find began; it never looks at
\* the directory between two writes of an insert.
C28_FindBesideSplit ==
    /\ \A t \in Threads :
          (Answered(t) /\ thread[t].known) =>
              thread[t].ret = "true" /\ thread[t].out \in thread[t].may
    /\ \A t \in Threads : Reading(t) => ~Written

\* a find of a key inserted before, begun between two writes of an insert
\* that splits, has returned found
C28_Witness ==
    \E t \in Threads :
        /\ Answered(t)
        /\ thread[t].known
        /\ thread[t].met
        /\ thread[t].ret = "true"

\* ------------------------------------------------------------ C29
\* thread t holds latch_ inside a getter and has not read yet
Getting(t) == thread[t].op \in Getters /\ thread[t].pc = "read"

\* C29: GetGlobalDepth, GetLocalDepth and GetNumBuckets never read between
\* two writes of an insert: they and the critical section of insert exclude
\* each other.
C29_GettersExcludeInsert ==
    \A t \in Threads : Getting(t) => ~Written

\* the getters exclude each other
C29_GettersExcludeGetters ==
    \A t, u \in Threads : (Getting(t) /\ Getting(u)) => t = u

\* ------------------------------------------------------------ C30
\* the pairs a leaf holds, in slot order
Pairs(pg) == [i \in 1 .. pg.size_ |-> pg.array_[i]]

\* the pairs of a leaf and one more pair, in key order
WithPair(pg, key, value) ==
    LET low == {i \in 1 .. pg.size_ : pg.array_[i][1] < key}
    IN  [i \in 1 .. (pg.size_ + 1) |->
           IF i <= Cardinality(low) THEN pg.array_[i]
           ELSE IF i = Cardinality(low) + 1 THEN <<key, value>>
           ELSE pg.array_[i - 1]]

\* C30: a split divides the max_size + 1 pairs in key order, the old leaf
\* keeping the lower ceil(max_size / 2) and the new leaf the rest, none lost
\* or doubled; the new leaf takes the old leaf's right sibling, the old leaf
\* points to the new leaf, and the key passed up is the first key of the new
\* leaf.
C30_LeafSplit ==
    [][\A key \in Keys, value \in Values :
          SplitLeaf(key, value, 0) =>
              LET old == tree.pool.store[0]
                  all == WithPair(old, key, value)
                  keep == (old.max_size_ + 1) \div 2
                  left == tree'.pool.store[0]
                  right == tree'.pool.store[1]
              IN  /\ fault' = "none"
                  /\ Pairs(left) = SubSeq(all, 1, keep)
                  /\ Pairs(right) = SubSeq(all, keep + 1, Len(all))
                  /\ right.next_page_id_ = old.next_page_id_
                  /\ left.next_page_id_ = 1
                  /\ NewKey(tree'.pool, 0) = all[keep + 1][1]]_vars

\* what the call leaves behind: the old leaf cut to max_size / 2 pairs that
\* are the lowest of the max_size + 1, its right sibling unchanged, and an
\* empty new leaf
C30_WhatSplitLeaves ==
    [][\A key \in Keys, value \in Values :
          SplitLeaf(key, value, 0) =>
              LET old == tree.pool.store[0]
                  all == WithPair(old, key, value)
                  left == tree'.pool.store[0]
                  right == tree'.pool.store[1]
              IN  /\ fault' = "crash"
                  /\ Pairs(left) = SubSeq(all, 1, old.max_size_ \div 2)
                  /\ Pairs(right) = << >>
                  /\ left.next_page_id_ = old.next_page_id_
                  /\ NewKey(tree'.pool, 0) = all[old.max_size_ \div 2][1]]_vars

\* ------------------------------------------------------------ C21
\* thread t has returned from a GetValue
Got(t) == thread[t].op = "GetValue" /\ thread[t].pc = "idle"

C21_NoValueFromNowhere ==
    \A t \in Threads :
        Got(t) => (thread[t].ret = "true" => thread[t].out \in thread[t].may)

\* ------------------------------------------------------------ C32
\* the slots from 1 on whose key is at most the searched key
AtMost(pg, key) == {i \in 1 .. (pg.size_ - 1) : SlotAt(pg, i)[1] <= key}

\* the greatest of them, or 0
GreatestAtMost(pg, key) ==
    IF AtMost(pg, key) = {} THEN 0
    ELSE CHOOSE i \in AtMost(pg, key) : \A j \in AtMost(pg, key) : j <= i

\* C32: on an internal page of size 1 or more, find(k) is the greatest index
\* i >= 1 with key[i] <= k, and 0 when there is none, as on a page that holds
\* only the leftmost child; slot 0's key is never compared; find(key[i]) is i.
C32_FindGreatestAtMost ==
    [][\A key \in Keys :
          FindSlot(key) => called'[3] = GreatestAtMost(tree.pool.store[0], key)]_vars

\* what holds: on a page with a separator, a key that is no separator of the
\* page is sent to the greatest slot whose key is below it, whatever slot 0
\* holds
C32_FindBetweenSeparators ==
    [][\A key \in Keys :
          (/\ FindSlot(key)
           /\ tree.pool.store[0].size_ > 1
           /\ \A i \in 1 .. (tree.pool.store[0].size_ - 1) :
                 SlotAt(tree.pool.store[0], i)[1] # key) =>
              called'[3] = GreatestAtMost(tree.pool.store[0], key)]_vars

\* a key equal to separator i is sent to slot i - 1
C32_SeparatorGoesLeft ==
    [][\A key \in Keys :
          FindSlot(key) =>
              \A i \in 1 .. (tree.pool.store[0].size_ - 1) :
                 SlotAt(tree.pool.store[0], i)[1] = key => called'[3] = i - 1]_vars

\* ------------------------------------------------------------ C33
\* C33: in every get and insert a frame is latched only after its page was
\* pinned and unlatched before the page is unpinned: the thread never holds
\* a latch on a frame it has no pin on.
C33_LatchInsidePin == ~tree.pool.bare

\* between two calls the thread holds no pin and no latch
C33_NothingHeldBetweenCalls == fault = "none" => Unheld(tree)

\* ------------------------------------------------------------ C35
\* C35: in get and insert no thread calls fetch_page, new_page or unpin_page,
\* which take the pool's mutex and may read or write the disk, while it
\* holds a frame latch.
C35_NoPoolCallUnderLatch == ~tree.pool.nested

\* ------------------------------------------------------------ C31
\* the root page, and the leaf Insert(key, .) goes down to from it
RootPage(t) == t.pool.store[t.root_page_id_]
TargetLeaf(t, key) ==
    IF RootPage(t).page_type_ = "LEAF_PAGE" THEN RootPage(t)
    ELSE t.pool.store[PageOf(SlotAt(RootPage(t), InternalFind(RootPage(t), key))[2])]

\* Insert(key, .) has a new key for a full leaf
Overflows(t, key) ==
    IsFull(TargetLeaf(t, key)) /\ LeafFind(TargetLeaf(t, key), key) < 0

\* the root page of t splits when key is inserted
RootSplits(t, key) ==
    /\ Overflows(t, key)
    /\ IsFull(RootPage(t))

\* t1 has a new internal root over the root of t and a page of the kind of
\* the old root that t did not have
NewRootOver(t, t1) ==
    /\ t1.root_page_id_ \notin {t.root_page_id_, INVALID_PAGE_ID}
    /\ t.pool.store[t1.root_page_id_].page_type_ = "INVALID_INDEX_PAGE"
    /\ RootPage(t1).page_type_ = "INTERNAL_PAGE"
    /\ RootPage(t1).size_ = 2
    /\ SlotAt(RootPage(t1), 0)[2] = t.root_page_id_
    /\ LET split == PageOf(SlotAt(RootPage(t1), 1)[2])
       IN  /\ split \notin {t.root_page_id_, t1.root_page_id_, INVALID_PAGE_ID}
           /\ t.pool.store[split].page_type_ = "INVALID_INDEX_PAGE"
           /\ t1.pool.store[split].page_type_ = RootPage(t).page_type_

\* the pool refused a frame and the call gave up, leaving the pages alone
GaveUp == ret' = "false" /\ tree'.pool.store = tree.pool.store

\* C31: when the root page splits, leaf or internal, a new internal root is
\* allocated with the old root as child 0 and the page the split produced as
\* child 1, and root_page_id_ is set to it; an ancestor that is not full
\* receives the separator and is not split.
C31_RootSplit ==
    [][\A key \in Keys, value \in Values :
          GrownInsert(key, value) =>
              /\ RootSplits(tree, key) =>
                    \/ GaveUp
                    \/ fault' = "none" /\ NewRootOver(tree, tree')
              /\ (Overflows(tree, key) /\ ~IsFull(RootPage(tree))) =>
                    \/ GaveUp
                    \/ /\ fault' = "none"
                       /\ tree'.root_page_id_ = tree.root_page_id_
                       /\ RootPage(tree').page_type_ = "INTERNAL_PAGE"
                       /\ RootPage(tree').size_ = RootPage(tree).size_ + 1]_vars

\* what happens instead: the call gives up or stops in the split of the
\* leaf, and root_page_id_ and the root page stay as they were
C31_RootStays ==
    [][\A key \in Keys, value \in Values :
          (GrownInsert(key, value) /\ Overflows(tree, key)) =>
              /\ GaveUp \/ fault' = "crash"
              /\ tree'.root_page_id_ = tree.root_page_id_
              /\ RootPage(tree).page_type_ = "INTERNAL_PAGE" =>
                    RootPage(tree') = RootPage(tree)]_vars

\* the drawn trees answer GetValue as a tree should
C31_GrownTreesHoldKeys ==
    [][\A key \in Keys :
          (TreeGetValue(key) /\ called = NoCall /\ ret' = "true") =>
              /\ LeafFind(TargetLeaf(tree, key), key) >= 0
              /\ result' = <<SlotAt(TargetLeaf(tree, key),
                                    LeafFind(TargetLeaf(tree, key), key))[2]>>]_vars

\* ------------------------------------------------------------ C34
\* C34: every get and every insert returns, and when it does each page it
\* pinned was unpinned once, each latch it took was released once, and it
\* unpinned or unlatched nothing it did not hold.
C34_PinsAndLatchesBalance ==
    /\ fault = "none"
    /\ Unheld(tree)
    /\ ~tree.pool.stray

\* the same of GetValue alone
C34_GetValueBalance ==
    [][\A key \in Keys :
          (TreeGetValue(key) /\ ~tree.pool.stray) =>
              fault' = "none" /\ Unheld(tree') /\ ~tree'.pool.stray]_vars

\* GetValue returns, holding nothing, whatever the pool refuses
C34_GetValueReturns ==
    [][\A key \in Keys :
          TreeGetValue(key) => fault' = "none" /\ Unheld(tree')]_vars

\* an Insert that returns holds nothing
C34_InsertReturnsEmptyHanded ==
    [][\A key \in Keys, value \in Values :
          (GrownInsert(key, value) /\ fault' = "none") => Unheld(tree')]_vars

\* an Insert of a key the tree does not hold returns only when the pool
\* refused it a frame
C34_NewKeyNeverReturns ==
    [][\A key \in Keys, value \in Values :
          (GrownInsert(key, value) /\ LeafFind(TargetLeaf(tree, key), key) < 0) =>
              fault' = "crash" \/ GaveUp]_vars
====
